---- MODULE Spec2Model ----
(***************************************************************************)
(* Model of the record matching engine of puby (puby/matcher.py): the      *)
(* PublicationMatcher configuration, match_publications and the list       *)
(* operations find_missing, find_duplicates and find_potential_matches.    *)
(*                                                                         *)
(* Strings are sequences of one-character strings.  None and the empty     *)
(* string are both the empty sequence (the code only tests truthiness      *)
(* before it uses an optional field); a missing year is 0, which Python    *)
(* treats as false as well.  Confidences are exact rationals <<n, d>> in   *)
(* lowest terms.  The code computes them in binary floating point, where a *)
(* sum of signal scores can round just below the exact value (0.5 + 0.2 +  *)
(* 0.1 is 0.7999999999999999): a comparison of a confidence with a         *)
(* threshold equal to such a sum is decided here on the exact value.       *)
(***************************************************************************)
EXTENDS Integers, Sequences, FiniteSets, TLC

(***************************************************************************)
(* Bounds of the model.                                                    *)
(***************************************************************************)
MaxSource == 2
MaxReference == 2
MaxPublications == 4
MaxAuthors == 2
MaxPieces == 3
MaxWords == 3
MaxSurname == 3
MaxBatch == 28
MaxPagePieces == 3
MaxFrame == 2
MaxThreads == 2
MaxCalls == 2
MaxCleanups == 1
MaxPages == 2
MaxSame == 2
MaxGroup == 3
MaxGroups == 2
MaxRequests == 12

\* limit = 100 in _fetch_my_publications
limit == 100

\* max_pages = 10 in _fetch_from_html of pure_source.py
max_pages == 10

(***************************************************************************)
(* Exact rational arithmetic for the float computations of the matcher.    *)
(***************************************************************************)
RECURSIVE Gcd(_, _)
Gcd(a, b) == IF b = 0 THEN a ELSE Gcd(b, a % b)

Abs(x) == IF x < 0 THEN -x ELSE x

Rat(n, d) ==
    LET g == Gcd(Abs(n), Abs(d))
        s == IF d < 0 THEN -1 ELSE 1
    IN  <<(s * n) \div g, (s * d) \div g>>

RAdd(x, y) == Rat(x[1] * y[2] + y[1] * x[2], x[2] * y[2])
RSub(x, y) == Rat(x[1] * y[2] - y[1] * x[2], x[2] * y[2])
RMul(x, y) == Rat(x[1] * y[1], x[2] * y[2])
RLeq(x, y) == x[1] * y[2] <= y[1] * x[2]
RLt(x, y) == x[1] * y[2] < y[1] * x[2]
RMin(x, y) == IF RLeq(x, y) THEN x ELSE y
RMax(x, y) == IF RLeq(x, y) THEN y ELSE x
Zero == Rat(0, 1)
One == Rat(1, 1)

(***************************************************************************)
(* Python string primitives on character sequences.                        *)
(***************************************************************************)
UpperLetters ==
    <<"A", "B", "C", "D", "E", "F", "G", "H", "I", "J", "K", "L", "M",
      "N", "O", "P", "Q", "R", "S", "T", "U", "V", "W", "X", "Y", "Z">>
LowerLetters ==
    <<"a", "b", "c", "d", "e", "f", "g", "h", "i", "j", "k", "l", "m",
      "n", "o", "p", "q", "r", "s", "t", "u", "v", "w", "x", "y", "z">>

LowerOf ==
    [c \in {UpperLetters[i] : i \in 1..26} |->
        LowerLetters[CHOOSE i \in 1..26 : UpperLetters[i] = c]]
UpperOf ==
    [c \in {LowerLetters[i] : i \in 1..26} |->
        UpperLetters[CHOOSE i \in 1..26 : LowerLetters[i] = c]]

\* str.lower() and str.upper()
lower(s) == [i \in 1..Len(s) |-> IF s[i] \in DOMAIN LowerOf THEN LowerOf[s[i]] ELSE s[i]]
upper(s) == [i \in 1..Len(s) |-> IF s[i] \in DOMAIN UpperOf THEN UpperOf[s[i]] ELSE s[i]]

\* the regular expression classes \s and \w
IsSpace(c) == c \in {" ", "\t"}
IsWord(c) ==
    \/ c \in DOMAIN LowerOf
    \/ c \in DOMAIN UpperOf
    \/ c \in {"0", "1", "2", "3", "4", "5", "6", "7", "8", "9", "_"}

\* str.strip()
RECURSIVE lstrip(_)
lstrip(s) == IF s # <<>> /\ IsSpace(Head(s)) THEN lstrip(Tail(s)) ELSE s
RECURSIVE rstrip(_)
rstrip(s) ==
    IF s # <<>> /\ IsSpace(s[Len(s)]) THEN rstrip(SubSeq(s, 1, Len(s) - 1)) ELSE s
strip(s) == rstrip(lstrip(s))

\* str.split(): the maximal runs of non-whitespace characters, in order
RECURSIVE SplitFrom(_, _, _)
SplitFrom(s, word, acc) ==
    IF s = <<>>
    THEN IF word = <<>> THEN acc ELSE Append(acc, word)
    ELSE IF IsSpace(Head(s))
         THEN SplitFrom(Tail(s), <<>>, IF word = <<>> THEN acc ELSE Append(acc, word))
         ELSE SplitFrom(Tail(s), Append(word, Head(s)), acc)
split(s) == SplitFrom(s, <<>>, <<>>)

\* set(sequence)
ToSet(seq) == {seq[i] : i \in 1..Len(seq)}

\* re.sub(r"[^\w\s]", " ", s)
SubNonWord(s) == [i \in 1..Len(s) |-> IF IsWord(s[i]) \/ IsSpace(s[i]) THEN s[i] ELSE " "]

\* re.sub(r"\s+", " ", s)
RECURSIVE SubSpaces(_)
SubSpaces(s) ==
    IF s = <<>> THEN <<>>
    ELSE IF IsSpace(Head(s))
         THEN <<" ">> \o SubSpaces(lstrip(s))
         ELSE <<Head(s)>> \o SubSpaces(Tail(s))

\* "shorter in longer" for strings
IsSubstring(shorter, longer) ==
    \E i \in 0..(Len(longer) - Len(shorter)) :
        SubSeq(longer, i + 1, i + Len(shorter)) = shorter

Min(a, b) == IF a <= b THEN a ELSE b
Max(a, b) == IF a >= b THEN a ELSE b

(***************************************************************************)
(* puby/similarity_utils.py                                                *)
(***************************************************************************)
normalize_text(text) ==
    IF text = <<>> THEN <<>> ELSE strip(SubSpaces(SubNonWord(lower(text))))

calculate_jaccard_similarity(words1, words2) ==
    IF words1 = {} \/ words2 = {}
    THEN Zero
    ELSE Rat(Cardinality(words1 \cap words2), Cardinality(words1 \cup words2))

calculate_enhanced_title_similarity(title1, title2) ==
    IF title1 = <<>> \/ title2 = <<>> THEN Zero
    ELSE
    LET words1 == ToSet(split(title1))
        words2 == ToSet(split(title2))
        jaccard_score == calculate_jaccard_similarity(words1, words2)
        shorter == IF Len(title1) <= Len(title2) THEN title1 ELSE title2
        longer == IF Len(title1) <= Len(title2) THEN title2 ELSE title1
        shorter_words ==
            IF Cardinality(words1) <= Cardinality(words2) THEN words1 ELSE words2
        longer_words ==
            IF Cardinality(words1) <= Cardinality(words2) THEN words2 ELSE words1
        intersection == Cardinality(words1 \cap words2)
        tail ==
            IF /\ intersection >= 2
               /\ 2 * intersection >= Min(Cardinality(words1), Cardinality(words2))
            THEN RMin(One, RMul(jaccard_score,
                                IF intersection >= 3 THEN Rat(12, 10) ELSE Rat(11, 10)))
            ELSE jaccard_score
    IN  IF words1 = {} \/ words2 = {} THEN Zero
        ELSE IF Len(title1) > 15 \/ Len(title2) > 15
        THEN IF IsSubstring(shorter, longer)
             THEN RMax(jaccard_score,
                       RMin(One, RAdd(Rat(Len(shorter), Len(longer)), Rat(2, 10))))
             ELSE IF shorter_words \subseteq longer_words
             THEN RMax(jaccard_score,
                       RMin(One, RAdd(Rat(Cardinality(shorter_words),
                                          Cardinality(longer_words)), Rat(4, 10))))
             ELSE tail
        ELSE tail

calculate_title_similarity_with_length_penalty(title1, title2) ==
    IF title1 = <<>> \/ title2 = <<>> THEN Zero
    ELSE
    LET norm1 == normalize_text(title1)
        norm2 == normalize_text(title2)
        words1 == ToSet(split(norm1))
        words2 == ToSet(split(norm2))
        jaccard == calculate_jaccard_similarity(words1, words2)
        len_ratio == Rat(Min(Cardinality(words1), Cardinality(words2)),
                         Max(Cardinality(words1), Cardinality(words2)))
    IN  IF norm1 = norm2 THEN One
        ELSE IF words1 = {} \/ words2 = {} THEN Zero
        ELSE RMul(jaccard, len_ratio)

(***************************************************************************)
(* puby/models.py: Publication.matches and the title normaliser it uses.   *)
(* re.sub scans left to right and replaces the leftmost match at each      *)
(* position; none of the patterns below matches the empty string.          *)
(***************************************************************************)
IsLetter(c) == c \in DOMAIN LowerOf \/ c \in DOMAIN UpperOf

\* the last position of the maximal run of letters that starts at i (i - 1 if none)
RECURSIVE LetterRunEnd(_, _)
LetterRunEnd(s, i) ==
    IF i <= Len(s) /\ IsLetter(s[i]) THEN LetterRunEnd(s, i + 1) ELSE i - 1

\* the first position >= i that holds character c (0 if none)
RECURSIVE FirstIndexOf(_, _, _)
FirstIndexOf(s, c, i) ==
    IF i > Len(s) THEN 0
    ELSE IF s[i] = c THEN i
    ELSE FirstIndexOf(s, c, i + 1)

HasAt(s, i, lit) == i + Len(lit) - 1 <= Len(s) /\ SubSeq(s, i, i + Len(lit) - 1) = lit

\* a match of the pattern at position i as <<last position, replacement>>, or <<>>
MatchAt(pat, s, i) ==
    CASE pat.kind = "command" ->
            \* \\name\{([^}]+)\}  ->  \1
            LET open == i + Len(pat.name) + 1
                close == FirstIndexOf(s, "}", open + 1)
            IN  IF /\ s[i] = "\\" /\ HasAt(s, i + 1, pat.name) /\ HasAt(s, open, <<"{">>)
                   /\ close > open + 1
                THEN <<close, SubSeq(s, open + 1, close - 1)>>
                ELSE <<>>
      [] pat.kind = "anycommand" ->
            \* \\[a-zA-Z]+\{([^}]*)\}  ->  \1
            LET open == LetterRunEnd(s, i + 1) + 1
                close == FirstIndexOf(s, "}", open + 1)
            IN  IF /\ s[i] = "\\" /\ open > i + 1 /\ HasAt(s, open, <<"{">>)
                   /\ close > open
                THEN <<close, SubSeq(s, open + 1, close - 1)>>
                ELSE <<>>
      [] pat.kind = "braces" ->
            \* \{([^}]+)\}  ->  \1
            LET close == FirstIndexOf(s, "}", i + 1)
            IN  IF s[i] = "{" /\ close > i + 1
                THEN <<close, SubSeq(s, i + 1, close - 1)>>
                ELSE <<>>
      [] pat.kind = "barecommand" ->
            \* \\[a-zA-Z]+  ->  ""
            IF s[i] = "\\" /\ LetterRunEnd(s, i + 1) > i
            THEN <<LetterRunEnd(s, i + 1), <<>>>>
            ELSE <<>>
      [] pat.kind = "entity" ->
            \* &[a-zA-Z]+;  ->  " "
            LET last == LetterRunEnd(s, i + 1)
            IN  IF s[i] = "&" /\ last > i /\ HasAt(s, last + 1, <<";">>)
                THEN <<last + 1, <<" ">>>>
                ELSE <<>>
      [] pat.kind = "tag" ->
            \* <[^>]+>  ->  " "
            LET close == FirstIndexOf(s, ">", i + 1)
            IN  IF s[i] = "<" /\ close > i + 1
                THEN <<close, <<" ">>>>
                ELSE <<>>
      [] pat.kind = "punctuation" ->
            \* [^\w\s-]  ->  " "
            IF ~(IsWord(s[i]) \/ IsSpace(s[i]) \/ s[i] = "-")
            THEN <<i, <<" ">>>>
            ELSE <<>>

\* re.sub(pattern, replacement, s), from position i on
RECURSIVE ReSub(_, _, _)
ReSub(pat, s, i) ==
    IF i > Len(s) THEN <<>>
    ELSE LET m == MatchAt(pat, s, i)
         IN  IF m = <<>>
             THEN <<s[i]>> \o ReSub(pat, s, i + 1)
             ELSE m[2] \o ReSub(pat, s, m[1] + 1)

latex_patterns ==
    << [kind |-> "command", name |-> <<"t", "e", "x", "t", "b", "f">>],
       [kind |-> "command", name |-> <<"t", "e", "x", "t", "i", "t">>],
       [kind |-> "command", name |-> <<"e", "m", "p", "h">>],
       [kind |-> "command", name |-> <<"t", "e", "x", "t">>],
       [kind |-> "anycommand"],
       [kind |-> "braces"],
       [kind |-> "barecommand"] >>

html_patterns == << [kind |-> "entity"], [kind |-> "tag"] >>

\* for pattern, replacement in patterns: normalized = re.sub(...)
RECURSIVE ApplyPatterns(_, _)
ApplyPatterns(patterns, s) ==
    IF patterns = <<>> THEN s
    ELSE ApplyPatterns(Tail(patterns), ReSub(Head(patterns), s, 1))

\* _normalize_title without the replacement of punctuation by spaces
_normalize_title_keep_punctuation(title) ==
    IF title = <<>> THEN <<>>
    ELSE strip(SubSpaces(ApplyPatterns(html_patterns,
                                       ApplyPatterns(latex_patterns, lower(title)))))

_normalize_title(title) ==
    IF title = <<>> THEN <<>>
    ELSE strip(SubSpaces(ReSub([kind |-> "punctuation"],
                               ApplyPatterns(html_patterns,
                                             ApplyPatterns(latex_patterns, lower(title))),
                               1)))

_calculate_fuzzy_similarity(title1, title2) ==
    IF title1 = <<>> \/ title2 = <<>> THEN Zero
    ELSE
    LET words1 == ToSet(split(title1))
        words2 == ToSet(split(title2))
        intersection == Cardinality(words1 \cap words2)
        union == Cardinality(words1 \cup words2)
        jaccard_score == IF union > 0 THEN Rat(intersection, union) ELSE Zero
        shorter == IF Len(title1) <= Len(title2) THEN title1 ELSE title2
        longer == IF Len(title1) <= Len(title2) THEN title2 ELSE title1
        shorter_words ==
            IF Cardinality(words1) <= Cardinality(words2) THEN words1 ELSE words2
        longer_words ==
            IF Cardinality(words1) <= Cardinality(words2) THEN words2 ELSE words1
        tail ==
            IF /\ intersection >= 2
               /\ 2 * intersection >= Min(Cardinality(words1), Cardinality(words2))
            THEN RMin(One, RMul(jaccard_score,
                                IF intersection >= 3 THEN Rat(12, 10) ELSE Rat(11, 10)))
            ELSE jaccard_score
    IN  IF words1 = {} \/ words2 = {} THEN Zero
        ELSE IF Len(title1) > 15 \/ Len(title2) > 15
        THEN IF IsSubstring(shorter, longer)
             THEN RMax(jaccard_score,
                       RMin(One, RAdd(Rat(Len(shorter), Len(longer)), Rat(2, 10))))
             ELSE IF shorter_words \subseteq longer_words
             THEN RMax(jaccard_score,
                       RMin(One, RAdd(Rat(Cardinality(shorter_words),
                                          Cardinality(longer_words)), Rat(4, 10))))
             ELSE tail
        ELSE tail

\* Publication.matches(self, other, threshold)
matches(self, other, threshold) ==
    IF self.doi # <<>> /\ other.doi # <<>>
    THEN lower(self.doi) = lower(other.doi)
    ELSE IF self.title # <<>> /\ other.title # <<>>
    THEN LET norm_title1 == _normalize_title(self.title)
             norm_title2 == _normalize_title(other.title)
             title_similarity == _calculate_fuzzy_similarity(norm_title1, norm_title2)
             base_match == RLeq(threshold, title_similarity)
         IN  IF norm_title1 = <<>> \/ norm_title2 = <<>> THEN FALSE
             ELSE IF self.year # 0 /\ other.year # 0
             THEN base_match /\ self.year = other.year
             ELSE base_match
    ELSE FALSE

\* the default of the threshold parameter of Publication.matches
MatchesThreshold == Rat(7, 10)

(***************************************************************************)
(* puby/models.py: citation keys.  A character outside ASCII is written as *)
(* its code point, "U+00E9" for e with acute.                              *)
(***************************************************************************)
\* unicodedata.normalize("NFD", c) of the characters that decompose
NFDOf ==
    [c \in {"U+00E9", "U+00D1", "U+00E7"} |->
        CASE c = "U+00E9" -> <<"e", "U+0301">>
          [] c = "U+00D1" -> <<"N", "U+0303">>
          [] c = "U+00E7" -> <<"c", "U+0327">>]

\* unicodedata.category(c) == "Mn": combining acute, tilde and cedilla
CombiningMarks == {"U+0301", "U+0303", "U+0327"}

\* not c.isascii() and c.isalpha(): sharp s, o with stroke (small, capital),
\* l with stroke, eth, ligature oe (capital), the Han character wang
NonAsciiLetters ==
    {"U+00DF", "U+00F8", "U+00D8", "U+0142", "U+00F0", "U+0152", "U+738B"}

\* not c.isascii(), not c.isalpha(): the em dash and the right single quote
NonAsciiMarks == {"U+2014", "U+2019"}

isascii(c) ==
    c \notin DOMAIN NFDOf \cup CombiningMarks \cup NonAsciiLetters \cup NonAsciiMarks

\* c.isalpha() for an ASCII character
IsAsciiLetter(c) == c \in DOMAIN LowerOf \/ c \in DOMAIN UpperOf

\* c.lower() for one character
CharLower(c) ==
    IF c \in DOMAIN LowerOf THEN LowerOf[c]
    ELSE IF c = "U+00D8" THEN "U+00F8"
    ELSE IF c = "U+0152" THEN "U+0153"
    ELSE c

\* n with tilde, c with cedilla, sharp s, ae, o with stroke, a with ring,
\* l with stroke, z with dot, z with acute, s with acute
transliteration_map ==
    [c \in {"U+00F1", "U+00E7", "U+00DF", "U+00E6", "U+00F8", "U+00E5", "U+0142",
            "U+017C", "U+017A", "U+015B"} |->
        CASE c = "U+00F1" -> <<"n">>
          [] c = "U+00E7" -> <<"c">>
          [] c = "U+00DF" -> <<"s", "s">>
          [] c = "U+00E6" -> <<"a", "e">>
          [] c = "U+00F8" -> <<"o">>
          [] c = "U+00E5" -> <<"a">>
          [] c = "U+0142" -> <<"l">>
          [] c = "U+017C" -> <<"z">>
          [] c = "U+017A" -> <<"z">>
          [] c = "U+015B" -> <<"s">>]

\* transliteration_map.get(char.lower(), char)
_transliterate_char(char) ==
    IF CharLower(char) \in DOMAIN transliteration_map
    THEN transliteration_map[CharLower(char)]
    ELSE <<char>>

\* unicodedata.normalize("NFD", surname)
RECURSIVE NFD(_)
NFD(s) ==
    IF s = <<>> THEN <<>>
    ELSE (IF Head(s) \in DOMAIN NFDOf THEN NFDOf[Head(s)] ELSE <<Head(s)>>)
            \o NFD(Tail(s))

\* the loop "for char in surname" of _clean_surname_for_citation
RECURSIVE KeepLetters(_)
KeepLetters(s) ==
    IF s = <<>> THEN <<>>
    ELSE (IF isascii(Head(s)) /\ (IsAsciiLetter(Head(s)) \/ Head(s) = "-")
          THEN <<Head(s)>>
          ELSE IF Head(s) \in NonAsciiLetters
          THEN _transliterate_char(Head(s))
          ELSE <<>>)
            \o KeepLetters(Tail(s))

\* re.sub(r"-+", "-", s)
RECURSIVE SubHyphens(_)
SubHyphens(s) ==
    IF s = <<>> THEN <<>>
    ELSE IF Len(s) >= 2 /\ s[1] = "-" /\ s[2] = "-" THEN SubHyphens(Tail(s))
    ELSE <<Head(s)>> \o SubHyphens(Tail(s))

\* s.strip("-")
RECURSIVE StripHyphens(_)
StripHyphens(s) ==
    IF s # <<>> /\ (Head(s) = "-" \/ s[Len(s)] = "-")
    THEN StripHyphens(IF Head(s) = "-" THEN Tail(s) ELSE SubSeq(s, 1, Len(s) - 1))
    ELSE s

Unknown == <<"U", "n", "k", "n", "o", "w", "n">>

\* _clean_surname_for_citation that returns an empty result as it is
_clean_surname_for_citation_keep_empty(surname) ==
    IF surname = <<>> THEN Unknown
    ELSE StripHyphens(SubHyphens(KeepLetters(
             SelectSeq(NFD(surname), LAMBDA c : c \notin CombiningMarks))))

_clean_surname_for_citation(surname) ==
    IF surname = <<>> THEN Unknown
    ELSE LET cleaned ==
                 StripHyphens(SubHyphens(KeepLetters(
                     SelectSeq(NFD(surname), LAMBDA c : c \notin CombiningMarks))))
         IN  IF cleaned # <<>> THEN cleaned ELSE Unknown

\* s.find(sub) + 1: the first position at which sub occurs in s, 0 if none
Find(s, sub) ==
    IF \E i \in 1..Len(s) : HasAt(s, i, sub)
    THEN CHOOSE i \in 1..Len(s) :
            HasAt(s, i, sub) /\ \A j \in 1..(i - 1) : ~HasAt(s, j, sub)
    ELSE 0

_parse_surname_from_name(name) ==
    IF name = <<>> \/ strip(name) = <<>> THEN Unknown
    ELSE IF Find(strip(name), <<",">>) > 0
    THEN strip(SubSeq(strip(name), 1, Find(strip(name), <<",">>) - 1))
    ELSE split(name)[Len(split(name))]

extract_first_author_surname(self) ==
    IF self.authors = <<>> THEN Unknown
    ELSE LET author == self.authors[1]
         IN  _clean_surname_for_citation(
                 IF author.family_name # <<>> /\ strip(author.family_name) # <<>>
                 THEN strip(author.family_name)
                 ELSE _parse_surname_from_name(author.name))

\* str(n) for a natural number n
RECURSIVE str(_)
str(n) ==
    LET digit == <<"0", "1", "2", "3", "4", "5", "6", "7", "8", "9">>[(n % 10) + 1]
    IN  IF n < 10 THEN <<digit>> ELSE Append(str(n \div 10), digit)

\* for separator in ["-", "-", "—", " to ", " TO "]
separators ==
    << <<"-">>, <<"-">>, <<"U+2014">>, <<" ", "t", "o", " ">>, <<" ", "T", "O", " ">> >>

\* the loop of _extract_first_page from separator number k on, on the
\* stripped pages
RECURSIVE FirstPageFrom(_, _)
FirstPageFrom(pages, k) ==
    IF k > Len(separators) THEN pages
    ELSE IF Find(pages, separators[k]) > 0
    THEN LET first_part == strip(SubSeq(pages, 1, Find(pages, separators[k]) - 1))
         IN  IF first_part # <<>> THEN first_part ELSE pages
    ELSE FirstPageFrom(pages, k + 1)

_extract_first_page(pages) ==
    IF pages = <<>> THEN <<>> ELSE FirstPageFrom(strip(pages), 1)

\* generate_citation_key writing the year as it is, absent or not
generate_citation_key_year_always(self) ==
    LET page_part ==
            IF self.pages # <<>> /\ _extract_first_page(self.pages) # <<>>
            THEN <<"-">> \o _extract_first_page(self.pages)
            ELSE <<>>
    IN  extract_first_author_surname(self) \o str(self.year) \o page_part

generate_citation_key(self) ==
    LET year_str == IF self.year # 0 THEN str(self.year)
                    ELSE <<"N", "o", "Y", "e", "a", "r">>
        page_part ==
            IF self.pages # <<>> /\ _extract_first_page(self.pages) # <<>>
            THEN <<"-">> \o _extract_first_page(self.pages)
            ELSE <<>>
    IN  extract_first_author_surname(self) \o year_str \o page_part

\* the loop over string.ascii_lowercase that always takes the first letter
TrySuffixes_first_letter(base_key, existing_keys, i) == Append(base_key, LowerLetters[1])

\* for letter in string.ascii_lowercase, from letter number i on, and the
\* fallback after the loop
RECURSIVE TrySuffixes(_, _, _)
TrySuffixes(base_key, existing_keys, i) ==
    IF i > Len(LowerLetters) THEN Append(base_key, "z")
    ELSE IF Append(base_key, LowerLetters[i]) \notin ToSet(existing_keys)
    THEN Append(base_key, LowerLetters[i])
    ELSE TrySuffixes(base_key, existing_keys, i + 1)

\* resolve_key_conflicts that returns the base key whatever existing_keys holds
resolve_key_conflicts_unresolved(self, existing_keys) == generate_citation_key(self)

resolve_key_conflicts(self, existing_keys) ==
    IF generate_citation_key(self) \notin ToSet(existing_keys)
    THEN generate_citation_key(self)
    ELSE TrySuffixes(generate_citation_key(self), existing_keys, 1)

(***************************************************************************)
(* puby/matcher.py: PublicationMatcher.  self is the matcher's             *)
(* configuration record.                                                   *)
(***************************************************************************)
MatchResult(pub1, pub2, confidence, is_match, match_reasons) ==
    [source_publication |-> pub1, reference_publication |-> pub2,
     confidence |-> confidence, is_match |-> is_match,
     match_reasons |-> match_reasons]

PotentialMatch(source_pub, ref_pub, confidence) ==
    [source_publication |-> source_pub, reference_publication |-> ref_pub,
     confidence |-> confidence]

_normalize_doi(doi) == strip(lower(doi))

\* _normalize_text without text.lower()
_normalize_text_keep_case(text) == strip(SubSpaces(SubNonWord(text)))

_normalize_text(text) == strip(SubSpaces(SubNonWord(lower(text))))

\* _calculate_title_similarity without the penalty for different lengths
_calculate_title_similarity_no_penalty(title1, title2) ==
    IF title1 = <<>> \/ title2 = <<>> THEN Zero
    ELSE
    LET norm1 == _normalize_text(title1)
        norm2 == _normalize_text(title2)
        words1 == ToSet(split(norm1))
        words2 == ToSet(split(norm2))
    IN  IF norm1 = norm2 THEN One
        ELSE IF words1 = {} \/ words2 = {} THEN Zero
        ELSE Rat(Cardinality(words1 \cap words2), Cardinality(words1 \cup words2))

\* _calculate_title_similarity with the length ratio taken against the first
\* title instead of the longer one
_calculate_title_similarity_ratio_to_first(title1, title2) ==
    IF title1 = <<>> \/ title2 = <<>> THEN Zero
    ELSE
    LET norm1 == _normalize_text(title1)
        norm2 == _normalize_text(title2)
        words1 == ToSet(split(norm1))
        words2 == ToSet(split(norm2))
        jaccard == Rat(Cardinality(words1 \cap words2), Cardinality(words1 \cup words2))
        len_ratio == Rat(Min(Cardinality(words1), Cardinality(words2)),
                         Cardinality(words1))
    IN  IF norm1 = norm2 THEN One
        ELSE IF words1 = {} \/ words2 = {} THEN Zero
        ELSE RMul(jaccard, len_ratio)

_calculate_title_similarity(title1, title2) ==
    IF title1 = <<>> \/ title2 = <<>> THEN Zero
    ELSE
    LET norm1 == _normalize_text(title1)
        norm2 == _normalize_text(title2)
        words1 == ToSet(split(norm1))
        words2 == ToSet(split(norm2))
        jaccard == Rat(Cardinality(words1 \cap words2), Cardinality(words1 \cup words2))
        len_ratio == Rat(Min(Cardinality(words1), Cardinality(words2)),
                         Max(Cardinality(words1), Cardinality(words2)))
    IN  IF norm1 = norm2 THEN One
        ELSE IF words1 = {} \/ words2 = {} THEN Zero
        ELSE RMul(jaccard, len_ratio)

\* _normalize_author_name using family_name and given_name each on its own
\* whenever it is present
_normalize_author_name_each_field(author) ==
    LET name_parts == split(author.name)
        family == IF author.family_name # <<>> THEN upper(author.family_name)
                  ELSE upper(name_parts[Len(name_parts)])
        given_initial == IF author.given_name # <<>>
                         THEN upper(<<author.given_name[1]>>)
                         ELSE upper(<<name_parts[1][1]>>)
    IN  family \o <<",", " ">> \o given_initial

_normalize_author_name(author) ==
    IF author.family_name # <<>> /\ author.given_name # <<>>
    THEN upper(author.family_name) \o <<",", " ">> \o upper(<<author.given_name[1]>>)
    ELSE LET name_parts == split(author.name)
         IN  IF Len(name_parts) >= 2
             THEN upper(name_parts[Len(name_parts)]) \o <<",", " ">>
                    \o upper(<<name_parts[1][1]>>)
             ELSE upper(author.name)

\* _calculate_author_similarity dividing by the number of names of the first
\* list instead of the union
_calculate_author_similarity_share_of_first(authors1, authors2) ==
    IF authors1 = <<>> \/ authors2 = <<>> THEN Zero
    ELSE
    LET names1 == {_normalize_author_name(authors1[i]) : i \in 1..Len(authors1)}
        names2 == {_normalize_author_name(authors2[i]) : i \in 1..Len(authors2)}
    IN  Rat(Cardinality(names1 \cap names2), Cardinality(names1))

_calculate_author_similarity(authors1, authors2) ==
    IF authors1 = <<>> \/ authors2 = <<>> THEN Zero
    ELSE
    LET names1 == {_normalize_author_name(authors1[i]) : i \in 1..Len(authors1)}
        names2 == {_normalize_author_name(authors2[i]) : i \in 1..Len(authors2)}
    IN  Rat(Cardinality(names1 \cap names2), Cardinality(names1 \cup names2))

\* _check_doi_match comparing the DOIs as they are given
_check_doi_match_raw(self, pub1, pub2) ==
    IF pub1.doi # <<>> /\ pub2.doi # <<>>
    THEN IF pub1.doi = pub2.doi
         THEN <<MatchResult(pub1, pub2, One, TRUE, <<"doi">>)>>
         ELSE <<MatchResult(pub1, pub2, Zero, FALSE, <<>>)>>
    ELSE <<>>

_check_doi_match(self, pub1, pub2) ==
    IF pub1.doi # <<>> /\ pub2.doi # <<>>
    THEN IF _normalize_doi(pub1.doi) = _normalize_doi(pub2.doi)
         THEN <<MatchResult(pub1, pub2, One, TRUE, <<"doi">>)>>
         ELSE <<MatchResult(pub1, pub2, Zero, FALSE, <<>>)>>
    ELSE <<>>

\* a step of _calculate_similarity that adds its score without testing the
\* signal
AddSignal_unconditional(acc, signal, score, reason) ==
    <<RAdd(acc[1], score), Append(acc[2], reason)>>

\* one step of _calculate_similarity: "if <signal>: confidence += score;
\* match_reasons.append(reason)" on the pair acc = <<confidence, match_reasons>>
AddSignal(acc, signal, score, reason) ==
    IF signal THEN <<RAdd(acc[1], score), Append(acc[2], reason)>> ELSE acc

\* _calculate_similarity recording "year" whenever both years are present
_calculate_similarity_year_always(self, pub1, pub2) ==
    LET title_sim == _calculate_title_similarity(pub1.title, pub2.title)
        year_diff == Abs(pub1.year - pub2.year)
        year_score == RMax(Zero, RSub(One, Rat(year_diff, self.year_tolerance + 1)))
        author_sim == _calculate_author_similarity(pub1.authors, pub2.authors)
        c0 == <<Zero, <<>>>>
        c1 == AddSignal(c0,
                        /\ pub1.title # <<>> /\ pub2.title # <<>>
                        /\ RLt(Rat(6, 10), title_sim),
                        RMul(title_sim, Rat(5, 10)), "title")
        c2 == AddSignal(c1,
                        pub1.year # 0 /\ pub2.year # 0,
                        IF year_diff <= self.year_tolerance
                        THEN RMul(year_score, Rat(2, 10)) ELSE Zero,
                        "year")
        c3 == AddSignal(c2,
                        /\ pub1.authors # <<>> /\ pub2.authors # <<>>
                        /\ RLt(Rat(3, 10), author_sim),
                        RMul(author_sim, Rat(2, 10)), "authors")
        c4 == AddSignal(c3,
                        /\ pub1.journal # <<>> /\ pub2.journal # <<>>
                        /\ _normalize_text(pub1.journal) = _normalize_text(pub2.journal),
                        Rat(1, 10), "journal")
    IN  c4

_calculate_similarity(self, pub1, pub2) ==
    LET title_sim == _calculate_title_similarity(pub1.title, pub2.title)
        year_diff == Abs(pub1.year - pub2.year)
        year_score == RMax(Zero, RSub(One, Rat(year_diff, self.year_tolerance + 1)))
        author_sim == _calculate_author_similarity(pub1.authors, pub2.authors)
        c0 == <<Zero, <<>>>>
        c1 == AddSignal(c0,
                        /\ pub1.title # <<>> /\ pub2.title # <<>>
                        /\ RLt(Rat(6, 10), title_sim),
                        RMul(title_sim, Rat(5, 10)), "title")
        c2 == AddSignal(c1,
                        /\ pub1.year # 0 /\ pub2.year # 0
                        /\ year_diff <= self.year_tolerance,
                        RMul(year_score, Rat(2, 10)), "year")
        c3 == AddSignal(c2,
                        /\ pub1.authors # <<>> /\ pub2.authors # <<>>
                        /\ RLt(Rat(3, 10), author_sim),
                        RMul(author_sim, Rat(2, 10)), "authors")
        c4 == AddSignal(c3,
                        /\ pub1.journal # <<>> /\ pub2.journal # <<>>
                        /\ _normalize_text(pub1.journal) = _normalize_text(pub2.journal),
                        Rat(1, 10), "journal")
    IN  c4

\* the end of match_publications deciding is_match with > instead of >=
SimilarityResult_strict(self, pub1, pub2, sim) ==
    LET confidence == sim[1]
        reasons == sim[2]
        is_match == RLt(self.similarity_threshold, confidence)
    IN  MatchResult(pub1, pub2, RMin(confidence, One), is_match, reasons)

\* the end of match_publications, from the pair <<confidence, reasons>> that
\* _calculate_similarity returned
SimilarityResult(self, pub1, pub2, sim) ==
    LET confidence == sim[1]
        reasons == sim[2]
        is_match == RLeq(self.similarity_threshold, confidence)
    IN  MatchResult(pub1, pub2, RMin(confidence, One), is_match, reasons)

match_publications(self, pub1, pub2) ==
    LET doi_result == _check_doi_match(self, pub1, pub2)
    IN  IF doi_result # <<>>
        THEN doi_result[1]
        ELSE SimilarityResult(self, pub1, pub2, _calculate_similarity(self, pub1, pub2))

\* "if pub1.f and pub2.f": a field that is None, "", 0 or [] counts as false.
\* A publication with fields left out carries in `none` the names of the
\* fields that are None; such a field reads as <<>> (0 for the year) to the
\* operators above, which are only reached with fields that are present.
Present(pub, field) ==
    /\ field \notin pub.none
    /\ pub[field] # (IF field = "year" THEN 0 ELSE <<>>)

\* match_publications comparing the journals without "pub1.journal and
\* pub2.journal" in front
match_publications_raises_journal_unguarded(pub1, pub2) ==
    LET isnone(f) == f \in pub1.none \/ f \in pub2.none
        both(f) == Present(pub1, f) /\ Present(pub2, f)
    IN  IF both("doi")
        THEN IF isnone("doi") THEN <<"AttributeError">> ELSE <<>>
        ELSE IF both("title") /\ isnone("title") THEN <<"AttributeError">>
        ELSE IF both("year") /\ isnone("year") THEN <<"TypeError">>
        ELSE IF both("authors") /\ isnone("authors") THEN <<"TypeError">>
        ELSE IF isnone("journal") THEN <<"AttributeError">>
        ELSE <<>>

\* The exception match_publications ends with, <<>> when it returns.  None
\* raises AttributeError at doi.lower() in _normalize_doi and at text.lower()
\* in _normalize_text (titles, journals), and TypeError at pub1.year -
\* pub2.year and at the iteration over an author list; each of these sits
\* behind the truthiness test of its signal.
match_publications_raises(pub1, pub2) ==
    LET isnone(f) == f \in pub1.none \/ f \in pub2.none
        both(f) == Present(pub1, f) /\ Present(pub2, f)
    IN  IF both("doi")
        THEN IF isnone("doi") THEN <<"AttributeError">> ELSE <<>>
        ELSE IF both("title") /\ isnone("title") THEN <<"AttributeError">>
        ELSE IF both("year") /\ isnone("year") THEN <<"TypeError">>
        ELSE IF both("authors") /\ isnone("authors") THEN <<"TypeError">>
        ELSE IF both("journal") /\ isnone("journal") THEN <<"AttributeError">>
        ELSE <<>>

\* generate_citation_key calling pages.strip() without "if self.pages" and
\* "if not pages" in front
generate_citation_key_raises_pages_unguarded(self) ==
    IF "pages" \in self.none THEN <<"AttributeError">> ELSE <<>>

\* The exception generate_citation_key ends with, <<>> when it returns: None
\* has no strip(), which is called on the first author's family_name and
\* name and on the pages, each behind its truthiness test.  The publication
\* and its authors carry in `none` the names of their fields that are None.
generate_citation_key_raises(self) ==
    IF /\ Present(self, "authors")
       /\ Present(self.authors[1], "family_name")
       /\ "family_name" \in self.authors[1].none
    THEN <<"AttributeError">>
    ELSE IF /\ Present(self, "authors")
            /\ Present(self.authors[1], "name")
            /\ "name" \in self.authors[1].none
    THEN <<"AttributeError">>
    ELSE IF Present(self, "pages") /\ "pages" \in self.none
    THEN <<"AttributeError">>
    ELSE <<>>

\* the inner loop of find_missing: scan reference_pubs from position j on
RECURSIVE FoundFrom(_, _, _, _)
FoundFrom(self, source_pub, reference_pubs, j) ==
    IF j > Len(reference_pubs) THEN FALSE
    ELSE IF match_publications(self, source_pub, reference_pubs[j]).is_match THEN TRUE
    ELSE FoundFrom(self, source_pub, reference_pubs, j + 1)

\* the outer loop of find_missing
RECURSIVE MissingFrom(_, _, _, _, _)
MissingFrom(self, source_pubs, reference_pubs, i, missing) ==
    IF i > Len(source_pubs) THEN missing
    ELSE MissingFrom(self, source_pubs, reference_pubs, i + 1,
                     IF FoundFrom(self, source_pubs[i], reference_pubs, 1)
                     THEN missing
                     ELSE Append(missing, source_pubs[i]))

\* find_missing returning nothing for an empty reference list
find_missing_empty_reference(self, source_pubs, reference_pubs) ==
    IF source_pubs = <<>> THEN <<>>
    ELSE IF reference_pubs = <<>> THEN <<>>
    ELSE MissingFrom(self, source_pubs, reference_pubs, 1, <<>>)

\* find_missing handing the caller its own source list when nothing can match
find_missing_is_source_pubs(self, source_pubs, reference_pubs) ==
    IF source_pubs # <<>> /\ reference_pubs = <<>> THEN {"source_pubs"} ELSE {}

\* the arguments that the list returned by find_missing is the same object
\* as: "return []", "return list(source_pubs)" and "missing = []" each make
\* a new list
find_missing_is(self, source_pubs, reference_pubs) ==
    IF source_pubs = <<>> THEN {}
    ELSE IF reference_pubs = <<>> THEN {}
    ELSE {}

find_missing(self, source_pubs, reference_pubs) ==
    IF source_pubs = <<>> THEN <<>>
    ELSE IF reference_pubs = <<>> THEN source_pubs
    ELSE MissingFrom(self, source_pubs, reference_pubs, 1, <<>>)

\* the inner loop of find_duplicates comparing with the newest member of the group
RECURSIVE GroupFrom_chained(_, _, _, _, _)
GroupFrom_chained(self, publications, i, j, st) ==
    IF j > Len(publications) THEN st
    ELSE GroupFrom_chained(self, publications, i, j + 1,
                   IF /\ j \notin st[2]
                      /\ match_publications(self, publications[st[1][Len(st[1])]],
                                            publications[j]).is_match
                   THEN <<Append(st[1], j), st[2] \cup {j}>>
                   ELSE st)

\* the inner loop of find_duplicates over j = i+1 .. ; the state is <<group, seen>>.
\* Lists positions are 1-based here, 0-based in the code.
RECURSIVE GroupFrom(_, _, _, _, _)
GroupFrom(self, publications, i, j, st) ==
    IF j > Len(publications) THEN st
    ELSE GroupFrom(self, publications, i, j + 1,
                   IF /\ j \notin st[2]
                      /\ match_publications(self, publications[i], publications[j]).is_match
                   THEN <<Append(st[1], j), st[2] \cup {j}>>
                   ELSE st)

\* the end of an outer iteration of find_duplicates keeping groups of one
KeepGroup_singletons(st, i, g) ==
    IF Len(g[1]) >= 1
    THEN <<Append(st[1], g[1]), g[2] \cup {i}>>
    ELSE <<st[1], g[2]>>

\* the end of an outer iteration of find_duplicates forgetting which members
\* the group claimed
KeepGroup_unclaimed(st, i, g) ==
    IF Len(g[1]) > 1
    THEN <<Append(st[1], g[1]), st[2] \cup {i}>>
    ELSE <<st[1], st[2]>>

\* the end of an outer iteration of find_duplicates: "if len(group) > 1:
\* duplicates.append(group); seen.add(i)".  st is <<duplicates, seen>> before
\* the iteration, g is <<group, seen>> after its inner loop.
KeepGroup(st, i, g) ==
    IF Len(g[1]) > 1
    THEN <<Append(st[1], g[1]), g[2] \cup {i}>>
    ELSE <<st[1], g[2]>>

\* the outer loop of find_duplicates; the state is <<duplicates, seen>>.
\* A group is kept as the list of the positions of its members.
RECURSIVE DuplicatesFrom(_, _, _, _)
DuplicatesFrom(self, publications, i, st) ==
    IF i > Len(publications) THEN st
    ELSE DuplicatesFrom(self, publications, i + 1,
             IF i \in st[2] THEN st
             ELSE KeepGroup(st, i,
                            GroupFrom(self, publications, i, i + 1, <<<<i>>, st[2]>>)))

\* find_duplicates as lists of list positions
find_duplicates_positions(self, publications) ==
    IF publications = <<>> THEN <<>>
    ELSE DuplicatesFrom(self, publications, 1, <<<<>>, {}>>)[1]

\* the publications at the positions of each group
PublicationsAt(publications, groups) ==
    [g \in 1..Len(groups) |->
        [k \in 1..Len(groups[g]) |-> publications[groups[g][k]]]]

find_duplicates(self, publications) ==
    PublicationsAt(publications, find_duplicates_positions(self, publications))

\* the band of find_potential_matches with a strict lower bound
IsPotential_strict(self, result) ==
    /\ RLt(self.potential_threshold, result.confidence)
    /\ RLt(result.confidence, self.similarity_threshold)

\* "self.potential_threshold <= result.confidence < self.similarity_threshold"
IsPotential(self, result) ==
    /\ RLeq(self.potential_threshold, result.confidence)
    /\ RLt(result.confidence, self.similarity_threshold)

\* the body of the inner loop of find_potential_matches
AppendPotential(self, potential_matches, source_pub, ref_pub, result) ==
    IF IsPotential(self, result)
    THEN Append(potential_matches,
                PotentialMatch(source_pub, ref_pub, result.confidence))
    ELSE potential_matches

\* the inner loop of find_potential_matches, reference position j onwards
RECURSIVE PotentialOfSource(_, _, _, _, _)
PotentialOfSource(self, source_pub, reference_pubs, j, acc) ==
    IF j > Len(reference_pubs) THEN acc
    ELSE PotentialOfSource(self, source_pub, reference_pubs, j + 1,
             AppendPotential(self, acc, source_pub, reference_pubs[j],
                             match_publications(self, source_pub, reference_pubs[j])))

\* the outer loop of find_potential_matches, source position i onwards
RECURSIVE PotentialFrom(_, _, _, _, _)
PotentialFrom(self, source_pubs, reference_pubs, i, acc) ==
    IF i > Len(source_pubs) THEN acc
    ELSE PotentialFrom(self, source_pubs, reference_pubs, i + 1,
             PotentialOfSource(self, source_pubs[i], reference_pubs, 1, acc))

\* a sort that puts an element in front of the elements of equal confidence
RECURSIVE InsertSorted_unstable(_, _)
InsertSorted_unstable(sorted, x) ==
    IF sorted = <<>> THEN <<x>>
    ELSE IF RLt(x.confidence, Head(sorted).confidence)
    THEN <<Head(sorted)>> \o InsertSorted_unstable(Tail(sorted), x)
    ELSE <<x>> \o sorted

\* list.sort(key=lambda x: x.confidence, reverse=True): a stable sort, so an
\* element goes behind every element whose confidence is not smaller
RECURSIVE InsertSorted(_, _)
InsertSorted(sorted, x) ==
    IF sorted = <<>> THEN <<x>>
    ELSE IF RLeq(x.confidence, Head(sorted).confidence)
    THEN <<Head(sorted)>> \o InsertSorted(Tail(sorted), x)
    ELSE <<x>> \o sorted

RECURSIVE SortByConfidence(_, _)
SortByConfidence(list, sorted) ==
    IF list = <<>> THEN sorted
    ELSE SortByConfidence(Tail(list), InsertSorted(sorted, Head(list)))

find_potential_matches(self, source_pubs, reference_pubs) ==
    SortByConfidence(PotentialFrom(self, source_pubs, reference_pubs, 1, <<>>), <<>>)

(***************************************************************************)
(* The publications the model is run on.                                   *)
(***************************************************************************)
Author(name, given_name, family_name) ==
    [name |-> name, given_name |-> given_name, family_name |-> family_name]

Publication(title, authors, year, doi, journal) ==
    [title |-> title, authors |-> authors, year |-> year, doi |-> doi,
     journal |-> journal]

None == <<>>

Titles ==
    { <<"a", " ", "b", " ", "c", " ", "d">>,
      <<"A", " ", "b", ",", " ", "c", " ", " ", "D", ".">>,
      <<"a", " ", "b", " ", "c", " ", "d", " ", "e">>,
      <<"a", " ", "b", " ", "c", " ", "e">>,
      <<"d", " ", "c", " ", "b", " ", "a">>,
      <<"a", " ", "b">>,
      <<".">>,
      None }

Years == {0, 2021, 2022, 2023}

Dois ==
    { None,
      <<"1", "0", "/", "a">>,
      <<" ", "1", "0", "/", "A", " ">>,
      <<"1", "0", "/", "b">> }

AuLi == Author(<<"L", "i", ",", " ", "A", "l">>, <<"A", "l">>, <<"L", "i">>)
AuAlLi == Author(<<"A", "l", " ", "L", "i">>, None, None)
AuBo == Author(<<"B", "o", ",", " ", "E", "d">>, <<"E", "d">>, <<"B", "o">>)
AuPlato == Author(<<"P", "l", "a", "t", "o">>, None, None)
AuLiName == Author(<<"L", "i", ",", " ", "A", "l">>, None, None)

AuthorLists ==
    { <<>>, <<AuLi>>, <<AuAlLi>>, <<AuBo>>, <<AuLi, AuBo>>,
      <<AuLi, AuPlato, AuLiName>> }

Journals ==
    { None, <<"N", "a", "t">>, <<"n", "a", "t", ".">>, <<"S", "c", "i">> }

BasePub ==
    Publication(<<"a", " ", "b", " ", "c", " ", "d">>, <<AuLi>>, 2022, None,
                <<"N", "a", "t">>)
SparsePub ==
    Publication(<<"a", " ", "b", " ", "c", " ", "d", " ", "e">>, <<>>, 0, None, None)

\* every publication that differs from b in at most one field
Vary(b) ==
    {[b EXCEPT !.title = t] : t \in Titles}
      \cup {[b EXCEPT !.year = y] : y \in Years}
      \cup {[b EXCEPT !.doi = d] : d \in Dois}
      \cup {[b EXCEPT !.authors = a] : a \in AuthorLists}
      \cup {[b EXCEPT !.journal = j] : j \in Journals}

Pubs == Vary(BasePub) \cup Vary(SparsePub)

SimilarityThresholds == {Rat(0, 1), Rat(8, 10), Rat(95, 100)}
YearTolerances == {0, 1, 2}
PotentialThresholds == {Rat(2, 10), Rat(5, 10)}

(***************************************************************************)
(* State: the configuration of one PublicationMatcher, the inputs of the   *)
(* calls made on it, the existing_keys list of the BibTeX export, and the  *)
(* last call with its arguments and its return value.  ret_is holds the    *)
(* names of the arguments that the returned object is identical to ("is"   *)
(* in Python); it is empty when the call returns a new object.             *)
(***************************************************************************)
VARIABLES similarity_threshold, year_tolerance, potential_threshold,
          pub1, pub2, source_pubs, reference_pubs, publications, existing_keys,
          call, args, ret,
          ret_is

\* puby/http_session.py: the session table of the one HTTPSessionManager and
\* its lock (0 when no thread holds it), the position, the argument domain
\* and the local clean_domain of each thread inside get_session or cleanup, and, as
\* history, the sessions made by _create_session, the sessions returned by
\* get_session and the number of cleanups so far.  A session object is the
\* number of its entry in created.
VARIABLES _sessions, _session_lock, pc, domain, clean_domain, created, returned, cleanups

http_session ==
    <<_sessions, _session_lock, pc, domain, clean_domain, created, returned, cleanups>>

Threads == 1..MaxThreads

\* _session_manager = HTTPSessionManager() at the import of the module
HTTPSessionManager ==
    /\ _sessions = <<>>
    /\ _session_lock = 0
    /\ pc = [thread \in Threads |-> "idle"]
    /\ domain = [thread \in Threads |-> <<>>]
    /\ clean_domain = [thread \in Threads |-> <<>>]
    /\ created = <<>>
    /\ returned = <<>>
    /\ cleanups = 0

\* puby/sources.py and puby/zotero_source.py, ZoteroSource.fetch: module is
\* the module the ZoteroSource was made from, config its ZoteroConfig, server
\* what the Zotero API answers, requested the requests made so far, start
\* the local variable of _fetch_my_publications and fetching the position
\* inside fetch.  The local list publications of _fetch_my_publications is
\* the variable publications.
VARIABLES module, config, server, requested, start, fetching

zotero == <<module, config, server, requested, start, fetching>>

\* a user library read through the My Publications endpoint as JSON
ZoteroConfig(use_my_publications, library_type, format, group_id) ==
    [use_my_publications |-> use_my_publications, library_type |-> library_type,
     format |-> format, group_id |-> group_id]

\* what the server answers: the My Publications collection holds the items
\* 0 .. total - 1, of which those in notes are no publications; the request
\* of the page at failure.start fails as failure.kind says; keys_current and
\* library are the answers to the lookup of the user id and to the requests
\* of the regular library
Server(total, notes, failure, keys_current, library) ==
    [total |-> total, notes |-> notes, failure |-> failure,
     keys_current |-> keys_current, library |-> library]

NoFailure == [start |-> 0, kind |-> "none"]

\* a ZoteroSource that has been constructed and has fetched nothing
ZoteroSource ==
    /\ module = "sources"
    /\ config = ZoteroConfig(FALSE, "user", "json", <<"1", "2", "3", "4", "5", "6">>)
    /\ server = Server(0, {}, NoFailure, "200", "200")
    /\ requested = <<>>
    /\ start = 0
    /\ fetching = "idle"

(***************************************************************************)
(* PureSource (puby/sources.py, used by the command line, and the copy in  *)
(* puby/pure_source.py; module tells which): the locals current_url and    *)
(* page_count of _fetch_from_html.  The requests made are recorded in      *)
(* requested and the publications collected in publications.               *)
(***************************************************************************)
VARIABLES current_url, page_count

pure == <<current_url, page_count>>

\* a PureSource that has been constructed and has fetched nothing
PureSource ==
    /\ current_url = <<>>
    /\ page_count = 0

vars == <<similarity_threshold, year_tolerance, potential_threshold,
          pub1, pub2, source_pubs, reference_pubs, publications, existing_keys,
          call, args, ret,
          ret_is, http_session, zotero, pure>>

\* the state of the matcher and of the citation keys
matching ==
    <<similarity_threshold, year_tolerance, potential_threshold,
      pub1, pub2, source_pubs, reference_pubs, publications, existing_keys,
      call, args, ret, ret_is>>

inputs == <<similarity_threshold, year_tolerance, potential_threshold,
            pub1, pub2, source_pubs, reference_pubs, publications, existing_keys, http_session, zotero, pure>>

\* the matcher object: PublicationMatcher.__init__
Self ==
    [similarity_threshold |-> similarity_threshold,
     year_tolerance |-> year_tolerance,
     potential_threshold |-> potential_threshold]

Init ==
    /\ similarity_threshold \in SimilarityThresholds
    /\ year_tolerance \in YearTolerances
    /\ potential_threshold \in PotentialThresholds
    /\ pub1 \in Pubs
    /\ pub2 \in Pubs
    /\ source_pubs = <<>>
    /\ reference_pubs = <<>>
    /\ publications = <<>>
    /\ existing_keys = <<>>
    /\ call = "none"
    /\ args = <<>>
    /\ ret = <<>>
    /\ ret_is = {}
    /\ PureSource
    /\ ZoteroSource
    /\ HTTPSessionManager

MatchPublications ==
    /\ call' = "match_publications"
    /\ args' = <<pub1, pub2>>
    /\ ret' = match_publications(Self, pub1, pub2)
    /\ ret_is' = {}
    /\ UNCHANGED inputs

Next == MatchPublications

Spec == Init /\ [][Next]_vars

(***************************************************************************)
(* The list operations.  Two further specifications draw the lists from a  *)
(* small set of publications: SpecLists the two lists of a comparison, for *)
(* find_missing and find_potential_matches, SpecDuplicates the one list of *)
(* find_duplicates.  cli._analyze_publications makes the three calls on    *)
(* one matcher; the matcher keeps no state between calls, so each call     *)
(* starts from the constructed matcher.                                    *)
(***************************************************************************)
PubA == BasePub
PubB ==
    Publication(<<"a", " ", "b", " ", "c", " ", "d", " ", "e">>, <<AuLi>>, 2022, None,
                <<"N", "a", "t">>)
PubC ==
    Publication(<<"a", " ", "b", " ", "c", " ", "e">>, <<AuLi>>, 2022, None,
                <<"N", "a", "t">>)
PubD ==
    Publication(<<"b", " ", "e">>, <<AuBo>>, 2021, <<"1", "0", "/", "a">>,
                <<"S", "c", "i">>)
PubF ==
    Publication(<<"{", "A", "}", " ", "b", ",", " ", "c", " ", " ", "D", ".">>,
                <<AuAlLi>>, 0, <<"1", "0", "/", "b">>, None)

\* the publications the lists of find_duplicates are drawn from
ListPubs == {PubA, PubB, PubC, PubD, PubF}

\* the publications the two lists of a comparison are drawn from
ComparedPubs == {PubA, PubB, PubC, PubF}

\* all lists over set S of length at most n
ListsUpTo(S, n) == UNION {[1..k -> S] : k \in 0..n}

\* the configurations of the matcher the list operations are run with: the
\* defaults of PublicationMatcher.__init__ and a stricter similarity_threshold
ListThresholds == {Rat(8, 10), Rat(95, 100)}

InitLists ==
    /\ similarity_threshold \in ListThresholds
    /\ year_tolerance = 1
    /\ potential_threshold = Rat(5, 10)
    /\ pub1 = BasePub
    /\ pub2 = BasePub
    /\ source_pubs \in ListsUpTo(ComparedPubs, MaxSource)
    /\ reference_pubs \in ListsUpTo(ComparedPubs, MaxReference)
    /\ publications = <<>>
    /\ existing_keys = <<>>
    /\ call = "none"
    /\ args = <<>>
    /\ ret = <<>>
    /\ ret_is = {}
    /\ PureSource
    /\ ZoteroSource
    /\ HTTPSessionManager

\* cli._analyze_publications: missing = matcher.find_missing(all_publications, zotero_pubs)
FindMissing ==
    /\ call = "none"
    /\ call' = "find_missing"
    /\ args' = <<source_pubs, reference_pubs>>
    /\ ret' = find_missing(Self, source_pubs, reference_pubs)
    /\ ret_is' = find_missing_is(Self, source_pubs, reference_pubs)
    /\ UNCHANGED inputs

\* potential_matches = matcher.find_potential_matches(all_publications, zotero_pubs)
FindPotentialMatches ==
    /\ call = "none"
    /\ call' = "find_potential_matches"
    /\ args' = <<source_pubs, reference_pubs>>
    /\ ret' = find_potential_matches(Self, source_pubs, reference_pubs)
    /\ ret_is' = {}
    /\ UNCHANGED inputs

NextLists == FindMissing \/ FindPotentialMatches

SpecLists == InitLists /\ [][NextLists]_vars

InitDuplicates ==
    /\ similarity_threshold \in ListThresholds
    /\ year_tolerance = 1
    /\ potential_threshold = Rat(5, 10)
    /\ pub1 = BasePub
    /\ pub2 = BasePub
    /\ source_pubs = <<>>
    /\ reference_pubs = <<>>
    /\ publications \in ListsUpTo(ListPubs, MaxPublications)
    /\ existing_keys = <<>>
    /\ call = "none"
    /\ args = <<>>
    /\ ret = <<>>
    /\ ret_is = {}
    /\ PureSource
    /\ ZoteroSource
    /\ HTTPSessionManager

\* duplicates = matcher.find_duplicates(zotero_pubs); the result is kept both as
\* the groups of publications and as the list positions they were taken from
FindDuplicates ==
    /\ call = "none"
    /\ call' = "find_duplicates"
    /\ args' = <<publications>>
    /\ ret' = [groups |-> find_duplicates(Self, publications),
               positions |-> find_duplicates_positions(Self, publications)]
    /\ ret_is' = {}
    /\ UNCHANGED inputs

NextDuplicates == FindDuplicates

SpecDuplicates == InitDuplicates /\ [][NextDuplicates]_vars

(***************************************************************************)
(* The author signal on its own: matcher.py:124 calls                      *)
(* _calculate_author_similarity(pub1.authors, pub2.authors).  SpecAuthors  *)
(* draws the two author lists from authors that carry every combination of *)
(* name, given_name and family_name.                                       *)
(***************************************************************************)
AuLiFamily == Author(<<"L", "i", ",", " ", "A", "l">>, None, <<"L", "i">>)
AuLiGiven == Author(<<"a", "l", " ", "l", "i">>, <<"a", "l">>, None)
AuPPlato == Author(<<"P", " ", "P", "l", "a", "t", "o">>, None, None)
AuPlatoFamily == Author(<<"P", "l", "a", "t", "o">>, None, <<"P", "l", "a", "t", "o">>)

AuthorPool == {AuLi, AuAlLi, AuLiFamily, AuLiGiven, AuPlato, AuPPlato, AuPlatoFamily}

\* a publication that carries nothing but the authors
AuthorsOnly(authors) == [SparsePub EXCEPT !.authors = authors]

InitAuthors ==
    /\ similarity_threshold = Rat(8, 10)
    /\ year_tolerance = 1
    /\ potential_threshold = Rat(5, 10)
    /\ pub1 \in {AuthorsOnly(a) : a \in ListsUpTo(AuthorPool, MaxAuthors)}
    /\ pub2 \in {AuthorsOnly(a) : a \in ListsUpTo(AuthorPool, MaxAuthors)}
    /\ source_pubs = <<>>
    /\ reference_pubs = <<>>
    /\ publications = <<>>
    /\ existing_keys = <<>>
    /\ call = "none"
    /\ args = <<>>
    /\ ret = <<>>
    /\ ret_is = {}
    /\ PureSource
    /\ ZoteroSource
    /\ HTTPSessionManager

\* author_sim = self._calculate_author_similarity(pub1.authors, pub2.authors)
CalculateAuthorSimilarity ==
    /\ call = "none"
    /\ call' = "_calculate_author_similarity"
    /\ args' = <<pub1.authors, pub2.authors>>
    /\ ret' = _calculate_author_similarity(pub1.authors, pub2.authors)
    /\ ret_is' = {}
    /\ UNCHANGED inputs

NextAuthors == CalculateAuthorSimilarity

SpecAuthors == InitAuthors /\ [][NextAuthors]_vars

(***************************************************************************)
(* Pairs of publications with fields left out, each as None or as the      *)
(* empty value of its type.                                                *)
(***************************************************************************)
FullA ==
    Publication(<<"a", " ", "b", " ", "c", " ", "d">>, <<AuLi>>, 2022,
                <<"1", "0", "/", "a">>, <<"N", "a", "t">>)
FullB ==
    Publication(<<"A", " ", "b", ",", " ", "c", " ", " ", "D", ".">>, <<AuAlLi>>,
                2021, <<" ", "1", "0", "/", "A", " ">>, <<"n", "a", "t", ".">>)

\* b with the fields of `gone` left out, those of `none` as None
Wither(b, gone, none) ==
    [f \in DOMAIN b \cup {"none"} |->
        IF f = "none" THEN none
        ELSE IF f \notin gone THEN b[f]
        ELSE IF f = "year" THEN 0 ELSE <<>>]

PartialPubs(b) ==
    UNION {{Wither(b, gone, none) : none \in SUBSET gone} :
              gone \in SUBSET (DOMAIN b)}

InitPartial ==
    /\ similarity_threshold = Rat(8, 10)
    /\ year_tolerance = 1
    /\ potential_threshold = Rat(5, 10)
    /\ pub1 \in PartialPubs(FullA)
    /\ pub2 \in PartialPubs(FullB)
                  \cup PartialPubs([FullB EXCEPT !.doi = <<"1", "0", "/", "b">>])
    /\ source_pubs = <<>>
    /\ reference_pubs = <<>>
    /\ publications = <<>>
    /\ existing_keys = <<>>
    /\ call = "none"
    /\ args = <<>>
    /\ ret = <<>>
    /\ ret_is = {}
    /\ PureSource
    /\ ZoteroSource
    /\ HTTPSessionManager

\* match_publications on the pair, ending with an exception or a MatchResult
MatchPartial ==
    /\ call' = "match_publications"
    /\ args' = <<pub1, pub2>>
    /\ ret' = IF match_publications_raises(pub1, pub2) # <<>>
              THEN [exception |-> match_publications_raises(pub1, pub2)[1]]
              ELSE match_publications(Self, pub1, pub2)
    /\ ret_is' = {}
    /\ UNCHANGED inputs

NextPartial == MatchPartial

SpecPartial == InitPartial /\ [][NextPartial]_vars

(***************************************************************************)
(* The partial-title scenario of test_partial_title_match: two titles that *)
(* share three of their eight words, one year apart, by the same authors.  *)
(***************************************************************************)
DeepLearningApplications ==
    <<"D", "e", "e", "p", " ", "L", "e", "a", "r", "n", "i", "n", "g", " ",
      "A", "p", "p", "l", "i", "c", "a", "t", "i", "o", "n", "s", " ", "i",
      "n", " ", "P", "h", "y", "s", "i", "c", "s">>
DeepLearningMethods ==
    <<"D", "e", "e", "p", " ", "L", "e", "a", "r", "n", "i", "n", "g", " ",
      "M", "e", "t", "h", "o", "d", "s", " ", "f", "o", "r", " ", "C", "o",
      "m", "p", "u", "t", "a", "t", "i", "o", "n", "a", "l", " ", "P", "h",
      "y", "s", "i", "c", "s">>

InitPartialTitle ==
    /\ similarity_threshold = Rat(8, 10)
    /\ year_tolerance = 1
    /\ potential_threshold = Rat(5, 10)
    /\ \E authors \in ListsUpTo(AuthorPool, MaxAuthors) \ {<<>>} :
       \E journals \in {jj \in Journals \X Journals : jj[1] # jj[2]} :
          /\ pub1 = Publication(DeepLearningApplications, authors, 2022, None,
                                journals[1])
          /\ pub2 = Publication(DeepLearningMethods, authors, 2021, None,
                                journals[2])
    /\ source_pubs = <<>>
    /\ reference_pubs = <<>>
    /\ publications = <<>>
    /\ existing_keys = <<>>
    /\ call = "none"
    /\ args = <<>>
    /\ ret = <<>>
    /\ ret_is = {}
    /\ PureSource
    /\ ZoteroSource
    /\ HTTPSessionManager

SpecPartialTitle == InitPartialTitle /\ [][Next]_vars

(***************************************************************************)
(* Pairs of records of one work: the same year and the same author list,   *)
(* any two titles, at most one DOI.                                        *)
(***************************************************************************)
InitSameWork ==
    /\ similarity_threshold = Rat(8, 10)
    /\ year_tolerance = 1
    /\ potential_threshold = Rat(5, 10)
    /\ \E year \in Years, authors \in AuthorLists :
       \E dois \in {dd \in Dois \X Dois : dd[1] = None \/ dd[2] = None} :
          /\ pub1 \in {Publication(t, authors, year, dois[1], <<"N", "a", "t">>) :
                         t \in Titles}
          /\ pub2 \in {Publication(t, authors, year, dois[2], j) :
                         t \in Titles, j \in {None, <<"n", "a", "t", ".">>}}
    /\ source_pubs = <<>>
    /\ reference_pubs = <<>>
    /\ publications = <<>>
    /\ existing_keys = <<>>
    /\ call = "none"
    /\ args = <<>>
    /\ ret = <<>>
    /\ ret_is = {}
    /\ PureSource
    /\ ZoteroSource
    /\ HTTPSessionManager

SpecSameWork == InitSameWork /\ [][Next]_vars

(***************************************************************************)
(* Texts to normalize: up to MaxPieces pieces of titles as they come from  *)
(* BibTeX and HTML sources, among them the double braces of protected      *)
(* capitals, a LaTeX command and the halves of an entity and of a tag.     *)
(***************************************************************************)
Pieces ==
    { <<"a">>, <<"B">>, <<" ">>, <<"-">>, <<".">>, <<"_">>,
      <<"\\", "e", "m">>, <<"{">>, <<"}">>, <<"{", "{">>, <<"}", "}">>,
      <<"&">>, <<"a", "m", "p", ";">>, <<"<">>, <<"i", ">">> }

RECURSIVE Concat(_)
Concat(pieces) == IF pieces = <<>> THEN <<>> ELSE Head(pieces) \o Concat(Tail(pieces))

Texts == {Concat(pieces) : pieces \in ListsUpTo(Pieces, MaxPieces)}

InitTexts ==
    /\ similarity_threshold = Rat(8, 10)
    /\ year_tolerance = 1
    /\ potential_threshold = Rat(5, 10)
    /\ pub1 \in {[SparsePub EXCEPT !.title = text] : text \in Texts}
    /\ pub2 = SparsePub
    /\ source_pubs = <<>>
    /\ reference_pubs = <<>>
    /\ publications = <<>>
    /\ existing_keys = <<>>
    /\ call = "none"
    /\ args = <<>>
    /\ ret = <<>>
    /\ ret_is = {}
    /\ PureSource
    /\ ZoteroSource
    /\ HTTPSessionManager

\* Publication._normalize_title(title)
NormalizeTitle ==
    /\ call' = "_normalize_title"
    /\ args' = <<pub1.title>>
    /\ ret' = _normalize_title(pub1.title)
    /\ ret_is' = {}
    /\ UNCHANGED inputs

\* similarity_utils.normalize_text(text)
NormalizeText ==
    /\ call' = "normalize_text"
    /\ args' = <<pub1.title>>
    /\ ret' = normalize_text(pub1.title)
    /\ ret_is' = {}
    /\ UNCHANGED inputs

\* PublicationMatcher._normalize_text(text)
MatcherNormalizeText ==
    /\ call' = "_normalize_text"
    /\ args' = <<pub1.title>>
    /\ ret' = _normalize_text(pub1.title)
    /\ ret_is' = {}
    /\ UNCHANGED inputs

NextTexts == NormalizeTitle \/ NormalizeText \/ MatcherNormalizeText

SpecTexts == InitTexts /\ [][NextTexts]_vars

(***************************************************************************)
(* Pairs of titles of up to MaxWords words; "quantum computing" is longer  *)
(* than the 15 characters from which the containment rules apply.          *)
(***************************************************************************)
TitleWords ==
    { <<"a">>, <<"q", "u", "a", "n", "t", "u", "m">>,
      <<"c", "o", "m", "p", "u", "t", "i", "n", "g">> }

\* " ".join(words)
RECURSIVE Join(_)
Join(words) ==
    IF words = <<>> THEN <<>>
    ELSE IF Len(words) = 1 THEN words[1]
    ELSE words[1] \o <<" ">> \o Join(Tail(words))

WordTitles == {Join(words) : words \in ListsUpTo(TitleWords, MaxWords)}

InitTitles ==
    /\ similarity_threshold = Rat(8, 10)
    /\ year_tolerance = 1
    /\ potential_threshold = Rat(5, 10)
    /\ pub1 \in {[SparsePub EXCEPT !.title = t] : t \in WordTitles}
    /\ pub2 \in {[SparsePub EXCEPT !.title = t] : t \in WordTitles}
    /\ source_pubs = <<>>
    /\ reference_pubs = <<>>
    /\ publications = <<>>
    /\ existing_keys = <<>>
    /\ call = "none"
    /\ args = <<>>
    /\ ret = <<>>
    /\ ret_is = {}
    /\ PureSource
    /\ ZoteroSource
    /\ HTTPSessionManager

\* Publication._calculate_fuzzy_similarity(title1, title2)
CalculateFuzzySimilarity ==
    /\ call' = "_calculate_fuzzy_similarity"
    /\ args' = <<pub1.title, pub2.title>>
    /\ ret' = _calculate_fuzzy_similarity(pub1.title, pub2.title)
    /\ ret_is' = {}
    /\ UNCHANGED inputs

\* similarity_utils.calculate_enhanced_title_similarity(title1, title2)
CalculateEnhancedTitleSimilarity ==
    /\ call' = "calculate_enhanced_title_similarity"
    /\ args' = <<pub1.title, pub2.title>>
    /\ ret' = calculate_enhanced_title_similarity(pub1.title, pub2.title)
    /\ ret_is' = {}
    /\ UNCHANGED inputs

\* PublicationMatcher._calculate_title_similarity(title1, title2)
CalculateTitleSimilarity ==
    /\ call' = "_calculate_title_similarity"
    /\ args' = <<pub1.title, pub2.title>>
    /\ ret' = _calculate_title_similarity(pub1.title, pub2.title)
    /\ ret_is' = {}
    /\ UNCHANGED inputs

NextTitles ==
    \/ CalculateFuzzySimilarity
    \/ CalculateEnhancedTitleSimilarity
    \/ CalculateTitleSimilarity

SpecTitles == InitTitles /\ [][NextTitles]_vars

(***************************************************************************)
(* Publications for the citation keys: first authors whose surname is made *)
(* of up to MaxSurname pieces, given as family_name or inside name, and    *)
(* years and pages present, empty or None.                                 *)
(***************************************************************************)
CitedAuthor(name, family_name, none) ==
    [name |-> name, given_name |-> None, family_name |-> family_name, none |-> none]

CitedPub(authors, year, pages, none) ==
    [title |-> <<"t">>, authors |-> authors, year |-> year, doi |-> None,
     journal |-> None, pages |-> pages, none |-> none]

SurnamePieces ==
    { <<"L">>, <<"i">>, <<"-">>, <<" ">>, <<",">>, <<"'">>, <<"U+00E9">>,
      <<"U+00DF">>, <<"U+00D8">>, <<"U+738B">> }

Surnames == {Concat(pieces) : pieces \in ListsUpTo(SurnamePieces, MaxSurname)}

CitedAuthors ==
    {CitedAuthor(s, None, {"family_name"}) : s \in Surnames}
      \cup {CitedAuthor(<<"x">>, s, {}) : s \in Surnames}
      \cup {CitedAuthor(None, None, none) : none \in SUBSET {"name", "family_name"}}

PagesGiven ==
    { <<"1", "2", "-", "1", "5">>, <<" ", "7", " ">>, <<"-", "5">>, <<" ">>,
      <<"7", "U+2014", "9">>, <<"7", " ", "t", "o", " ", "9">> }

CitedPubs ==
    {CitedPub(<<a>>, 2023, <<"7">>, {}) : a \in CitedAuthors}
      \cup UNION {{Wither(CitedPub(<<CitedAuthor(<<"A", "l", " ", "L", "i">>, None,
                                                  {"family_name"})>>,
                                    2023, pages, {}),
                           gone, none) :
                      none \in SUBSET gone, pages \in PagesGiven} :
                  gone \in SUBSET {"authors", "year", "pages"}}

InitCitationKeys ==
    /\ similarity_threshold = Rat(8, 10)
    /\ year_tolerance = 1
    /\ potential_threshold = Rat(5, 10)
    /\ pub1 \in CitedPubs
    /\ pub2 = SparsePub
    /\ source_pubs = <<>>
    /\ reference_pubs = <<>>
    /\ publications = <<>>
    /\ existing_keys = <<>>
    /\ call = "none"
    /\ args = <<>>
    /\ ret = <<>>
    /\ ret_is = {}
    /\ PureSource
    /\ ZoteroSource
    /\ HTTPSessionManager

\* pub.generate_citation_key(), ending with an exception or with a key as
\* its value
GenerateCitationKey ==
    /\ call' = "generate_citation_key"
    /\ args' = <<pub1>>
    /\ ret' = IF generate_citation_key_raises(pub1) # <<>>
              THEN [exception |-> generate_citation_key_raises(pub1)[1]]
              ELSE [value |-> generate_citation_key(pub1)]
    /\ ret_is' = {}
    /\ UNCHANGED inputs

\* pub.extract_first_author_surname()
ExtractFirstAuthorSurname ==
    /\ call' = "extract_first_author_surname"
    /\ args' = <<pub1>>
    /\ ret' = extract_first_author_surname(pub1)
    /\ ret_is' = {}
    /\ UNCHANGED inputs

NextCitationKeys == GenerateCitationKey \/ ExtractFirstAuthorSurname

SpecCitationKeys == InitCitationKeys /\ [][NextCitationKeys]_vars

(***************************************************************************)
(* resolve_key_conflicts against lists of existing keys: the base key with *)
(* its first n suffixed forms, and the full family with one key left out.  *)
(***************************************************************************)
KeyPubs ==
    { CitedPub(<<AuLi>>, 2023, <<"1">>, {}), CitedPub(<<AuLi>>, 2023, <<"1", "a">>, {}),
      CitedPub(<<AuLi>>, 2023, None, {}), CitedPub(<<>>, 0, None, {}) }

\* base_key followed by base_key + letter for the first n letters
KeyFamily(base_key, n) ==
    [i \in 1..(n + 1) |->
        IF i = 1 THEN base_key ELSE Append(base_key, LowerLetters[i - 1])]

Without(list, j) == SubSeq(list, 1, j - 1) \o SubSeq(list, j + 1, Len(list))

KeyLists(base_key) ==
    {<<>>, <<Append(base_key, "b")>>, <<<<"D", "o", "e", "2", "0", "2", "3">>>>}
      \cup {KeyFamily(base_key, n) : n \in 0..Len(LowerLetters)}
      \cup {Without(KeyFamily(base_key, Len(LowerLetters)), j) :
              j \in 1..(Len(LowerLetters) + 1)}

InitKeys ==
    /\ similarity_threshold = Rat(8, 10)
    /\ year_tolerance = 1
    /\ potential_threshold = Rat(5, 10)
    /\ pub1 \in KeyPubs
    /\ pub2 = SparsePub
    /\ source_pubs = <<>>
    /\ reference_pubs = <<>>
    /\ publications = <<>>
    /\ existing_keys \in KeyLists(generate_citation_key(pub1))
    /\ call = "none"
    /\ args = <<>>
    /\ ret = <<>>
    /\ ret_is = {}
    /\ PureSource
    /\ ZoteroSource
    /\ HTTPSessionManager

\* pub.resolve_key_conflicts(existing_keys)
ResolveKeyConflicts ==
    /\ call' = "resolve_key_conflicts"
    /\ args' = <<pub1, existing_keys>>
    /\ ret' = resolve_key_conflicts(pub1, existing_keys)
    /\ ret_is' = {}
    /\ UNCHANGED inputs

NextKeys == ResolveKeyConflicts

SpecKeys == InitKeys /\ [][NextKeys]_vars

(***************************************************************************)
(* The key loop of _export_missing_publications (puby/cli.py) on batches   *)
(* of up to MaxBatch publications: publications is missing_publications,   *)
(* and the loop has handled Len(existing_keys) of them.                    *)
(***************************************************************************)
\* batches of p with q at every position that is 1 modulo k
Batches ==
    {[i \in 1..n |-> IF i % k = 1 THEN q ELSE p] :
        n \in 0..MaxBatch, k \in {1, 2, 3, MaxBatch + 2}, p \in KeyPubs, q \in KeyPubs}

InitExport ==
    /\ similarity_threshold = Rat(8, 10)
    /\ year_tolerance = 1
    /\ potential_threshold = Rat(5, 10)
    /\ pub1 = SparsePub
    /\ pub2 = SparsePub
    /\ source_pubs = <<>>
    /\ reference_pubs = <<>>
    /\ publications \in Batches
    /\ existing_keys = <<>>
    /\ call = "none"
    /\ args = <<>>
    /\ ret = <<>>
    /\ ret_is = {}
    /\ PureSource
    /\ ZoteroSource
    /\ HTTPSessionManager

\* one iteration of "for pub in missing_publications": resolved_key =
\* pub.resolve_key_conflicts(existing_keys); existing_keys.append(resolved_key).
\* resolved_publications pairs publications[i] with existing_keys[i].
ExportResolveKey ==
    /\ Len(existing_keys) < Len(publications)
    /\ call' = "_export_missing_publications"
    /\ args' = <<publications[Len(existing_keys) + 1], existing_keys>>
    /\ ret' = resolve_key_conflicts(publications[Len(existing_keys) + 1], existing_keys)
    /\ existing_keys' = Append(existing_keys, ret')
    /\ ret_is' = {}
    /\ UNCHANGED <<similarity_threshold, year_tolerance, potential_threshold,
                   pub1, pub2, source_pubs, reference_pubs, publications, http_session, zotero, pure>>

NextExport == ExportResolveKey

SpecExport == InitExport /\ [][NextExport]_vars

(***************************************************************************)
(* Page strings for _extract_first_page: up to MaxPagePieces pieces, among *)
(* them each range separator and surrounding white space.                  *)
(***************************************************************************)
PagePieces ==
    { <<"1">>, <<"2">>, <<"-">>, <<"U+2014">>, <<" ", "t", "o", " ">>,
      <<" ", "T", "O", " ">>, <<" ">> }

PageTexts == {Concat(pieces) : pieces \in ListsUpTo(PagePieces, MaxPagePieces)}

PagedPubs ==
    {CitedPub(<<CitedAuthor(<<"A", "l", " ", "L", "i">>, None, {"family_name"})>>,
              2023, pages, {}) : pages \in PageTexts}

InitPages ==
    /\ similarity_threshold = Rat(8, 10)
    /\ year_tolerance = 1
    /\ potential_threshold = Rat(5, 10)
    /\ pub1 \in PagedPubs
    /\ pub2 = SparsePub
    /\ source_pubs = <<>>
    /\ reference_pubs = <<>>
    /\ publications = <<>>
    /\ existing_keys = <<>>
    /\ call = "none"
    /\ args = <<>>
    /\ ret = <<>>
    /\ ret_is = {}
    /\ PureSource
    /\ ZoteroSource
    /\ HTTPSessionManager

\* pub._extract_first_page(pub.pages)
ExtractFirstPage ==
    /\ call' = "_extract_first_page"
    /\ args' = <<pub1, pub1.pages>>
    /\ ret' = [value |-> _extract_first_page(pub1.pages)]
    /\ ret_is' = {}
    /\ UNCHANGED inputs

NextPages == GenerateCitationKey \/ ExtractFirstPage

SpecPages == InitPages /\ [][NextPages]_vars

(***************************************************************************)
(* The six operations that read publications, on one matcher and one set   *)
(* of inputs: lists of up to MaxFrame publications that carry every field  *)
(* the operations read.                                                    *)
(***************************************************************************)
FrameA ==
    [CitedPub(<<CitedAuthor(<<"A", "l", " ", "L", "i">>, None, {"family_name"})>>,
              2023, <<"1", "2", "-", "1", "5">>, {})
        EXCEPT !.journal = <<"N", "a", "t">>]

FrameB == [FrameA EXCEPT !.year = 2022, !.pages = None, !.none = {"pages"}]

FrameC == CitedPub(<<>>, 0, None, {"year", "pages"})

FramePubs == {FrameA, FrameB, FrameC}

InitFrame ==
    /\ similarity_threshold = Rat(8, 10)
    /\ year_tolerance = 1
    /\ potential_threshold = Rat(5, 10)
    /\ pub1 \in FramePubs
    /\ pub2 = FrameB
    /\ source_pubs \in ListsUpTo(FramePubs, MaxFrame)
    /\ reference_pubs \in ListsUpTo(FramePubs, MaxFrame)
    /\ publications = source_pubs \o reference_pubs
    /\ existing_keys \in {<<>>, <<generate_citation_key(pub1)>>}
    /\ call = "none"
    /\ args = <<>>
    /\ ret = <<>>
    /\ ret_is = {}
    /\ PureSource
    /\ ZoteroSource
    /\ HTTPSessionManager

NextFrame ==
    \/ MatchPublications
    \/ FindMissing
    \/ FindDuplicates
    \/ FindPotentialMatches
    \/ GenerateCitationKey
    \/ ResolveKeyConflicts

SpecFrame == InitFrame /\ [][NextFrame]_vars

(***************************************************************************)
(* puby/http_session.py: HTTPSessionManager.get_session and cleanup, each  *)
(* called by any thread.  The body of "with self._session_lock" runs while *)
(* the thread holds the lock; the steps of a thread are taking the lock,   *)
(* the test, the creation of the session, and the return, which gives the  *)
(* lock back.                                                              *)
(***************************************************************************)
startswith(s, prefix) == HasAt(s, 1, prefix)

\* urlparse(url).netloc of a url that starts with "http://" or "https://":
\* the text after "//" up to the first "/", "?" or "#"
netloc(url) ==
    LET rest == SubSeq(url, Find(url, <<"/", "/">>) + 2, Len(url))
        delimiters == {i \in 1..Len(rest) : rest[i] \in {"/", "?", "#"}}
    IN  IF delimiters = {} THEN rest
        ELSE SubSeq(rest, 1, (CHOOSE i \in delimiters : \A j \in delimiters : i <= j) - 1)

_extract_domain(url_or_domain) ==
    IF startswith(url_or_domain, <<"h", "t", "t", "p", ":", "/", "/">>)
         \/ startswith(url_or_domain, <<"h", "t", "t", "p", "s", ":", "/", "/">>)
    THEN netloc(url_or_domain)
    ELSE strip(url_or_domain)

\* the arguments get_session is called with
ExampleCom == <<"a", ".", "i", "o">>
ExampleComPadded == <<" ", "a", ".", "i", "o", " ">>
ExampleComUrl == <<"h", "t", "t", "p", "s", ":", "/", "/", "a", ".", "i", "o", "/", "v", "1">>
ExampleComHttpUrl == <<"h", "t", "t", "p", ":", "/", "/", "a", ".", "i", "o">>
ExampleComPortUrl ==
    <<"h", "t", "t", "p", "s", ":", "/", "/", "a", ".", "i", "o", ":", "8", "/", "v", "1">>
DifferentCom == <<"b", ".", "i", "o">>
DifferentComUrl == <<"h", "t", "t", "p", "s", ":", "/", "/", "b", ".", "i", "o", "?", "q">>

Domains ==
    { ExampleCom, ExampleComPadded, ExampleComUrl, ExampleComHttpUrl, ExampleComPortUrl,
      DifferentCom, DifferentComUrl }

InitSessions ==
    /\ similarity_threshold = Rat(8, 10)
    /\ year_tolerance = 1
    /\ potential_threshold = Rat(5, 10)
    /\ pub1 = SparsePub
    /\ pub2 = SparsePub
    /\ source_pubs = <<>>
    /\ reference_pubs = <<>>
    /\ publications = <<>>
    /\ existing_keys = <<>>
    /\ call = "none"
    /\ args = <<>>
    /\ ret = <<>>
    /\ ret_is = {}
    /\ PureSource
    /\ ZoteroSource
    /\ HTTPSessionManager

InGetSession(thread) ==
    pc[thread] \in {"get_session: with", "get_session: if", "get_session: create",
                    "get_session: return"}

\* get_session(domain) up to the lock: clean_domain = self._extract_domain(domain)
GetSession(thread, url_or_domain) ==
    /\ pc[thread] = "idle"
    /\ Len(returned) + Cardinality({t \in Threads : InGetSession(t)}) < MaxCalls
    /\ domain' = [domain EXCEPT ![thread] = url_or_domain]
    /\ clean_domain' = [clean_domain EXCEPT ![thread] = _extract_domain(url_or_domain)]
    /\ pc' = [pc EXCEPT ![thread] = "get_session: with"]
    /\ UNCHANGED <<_sessions, _session_lock, created, returned, cleanups>>
    /\ UNCHANGED <<matching, zotero, pure>>

\* get_session taking no lock
AcquireSessionLock_unlocked(thread) ==
    /\ pc[thread] = "get_session: with"
    /\ pc' = [pc EXCEPT ![thread] = "get_session: if"]
    /\ UNCHANGED <<_sessions, _session_lock, domain, clean_domain, created, returned, cleanups>>
    /\ UNCHANGED <<matching, zotero, pure>>

\* with self._session_lock, in get_session
AcquireSessionLock(thread) ==
    /\ pc[thread] = "get_session: with"
    /\ _session_lock = 0
    /\ _session_lock' = thread
    /\ pc' = [pc EXCEPT ![thread] = "get_session: if"]
    /\ UNCHANGED <<_sessions, domain, clean_domain, created, returned, cleanups>>
    /\ UNCHANGED <<matching, zotero, pure>>

\* if clean_domain not in self._sessions:
TestSession(thread) ==
    /\ pc[thread] = "get_session: if"
    /\ pc' = [pc EXCEPT ![thread] = IF clean_domain[thread] \notin DOMAIN _sessions
                                    THEN "get_session: create"
                                    ELSE "get_session: return"]
    /\ UNCHANGED <<_sessions, _session_lock, domain, clean_domain, created, returned, cleanups>>
    /\ UNCHANGED <<matching, zotero, pure>>

\* self._sessions[clean_domain] = self._create_session(clean_domain)
CreateSession(thread) ==
    /\ pc[thread] = "get_session: create"
    /\ created' = Append(created, [domain |-> clean_domain[thread], cleanups |-> cleanups])
    /\ _sessions' = [d \in DOMAIN _sessions \cup {clean_domain[thread]} |->
                        IF d = clean_domain[thread] THEN Len(created) + 1
                        ELSE _sessions[d]]
    /\ pc' = [pc EXCEPT ![thread] = "get_session: return"]
    /\ UNCHANGED <<_session_lock, domain, clean_domain, returned, cleanups>>
    /\ UNCHANGED <<matching, zotero, pure>>

\* return self._sessions[clean_domain], leaving the with block; the entry
\* is there, the thread has held the lock since it tested for it
ReturnSession(thread) ==
    /\ pc[thread] = "get_session: return"
    /\ clean_domain[thread] \in DOMAIN _sessions
    /\ returned' = Append(returned, [domain |-> domain[thread],
                                     session |-> _sessions[clean_domain[thread]],
                                     cleanups |-> cleanups])
    /\ _session_lock' = 0
    /\ pc' = [pc EXCEPT ![thread] = "idle"]
    /\ UNCHANGED <<_sessions, domain, clean_domain, created, cleanups>>
    /\ UNCHANGED <<matching, zotero, pure>>

\* cleanup() up to the lock
Cleanup(thread) ==
    /\ pc[thread] = "idle"
    /\ cleanups + Cardinality({t \in Threads : pc[t] \in {"cleanup: with", "cleanup: clear"}})
         < MaxCleanups
    /\ pc' = [pc EXCEPT ![thread] = "cleanup: with"]
    /\ UNCHANGED <<_sessions, _session_lock, domain, clean_domain, created, returned, cleanups>>
    /\ UNCHANGED <<matching, zotero, pure>>

\* with self._session_lock, in cleanup
AcquireCleanupLock(thread) ==
    /\ pc[thread] = "cleanup: with"
    /\ _session_lock = 0
    /\ _session_lock' = thread
    /\ pc' = [pc EXCEPT ![thread] = "cleanup: clear"]
    /\ UNCHANGED <<_sessions, domain, clean_domain, created, returned, cleanups>>
    /\ UNCHANGED <<matching, zotero, pure>>

\* the loop that closes every session, self._sessions.clear(), and leaving
\* the with block
ClearSessions(thread) ==
    /\ pc[thread] = "cleanup: clear"
    /\ _sessions' = <<>>
    /\ cleanups' = cleanups + 1
    /\ _session_lock' = 0
    /\ pc' = [pc EXCEPT ![thread] = "idle"]
    /\ UNCHANGED <<domain, clean_domain, created, returned>>
    /\ UNCHANGED <<matching, zotero, pure>>

NextSessions ==
    \E thread \in Threads :
        \/ \E url_or_domain \in Domains : GetSession(thread, url_or_domain)
        \/ AcquireSessionLock(thread)
        \/ TestSession(thread)
        \/ CreateSession(thread)
        \/ ReturnSession(thread)
        \/ Cleanup(thread)
        \/ AcquireCleanupLock(thread)
        \/ ClearSessions(thread)

SpecSessions == InitSessions /\ [][NextSessions]_vars

(***************************************************************************)
(* puby/sources.py and puby/zotero_source.py: ZoteroSource.fetch.  Both    *)
(* modules define the class; cli.py uses the one of sources.py.  An item   *)
(* of the server is its number in the collection, and a publication is the *)
(* number of the item it was parsed from.  The text of an HTTPError is the *)
(* one that requests gives it in raise_for_status.                         *)
(***************************************************************************)
\* response.json() of the page at start: up to limit items from start on
Items(total, start_, limit_) ==
    [i \in 1..Min(limit_, Max(total - start_, 0)) |-> start_ + i - 1]

\* the publications that _parse_zotero_item makes of items: none of an item
\* that is no publication
ParsedItems(items, notes) == SelectSeq(items, LAMBDA item : item \notin notes)

\* the URL of a request of My Publications, with its parameters
MyPublicationsUrl(user_id, format, start_) ==
    <<"h", "t", "t", "p", "s", ":", "/", "/", "a", "p", "i", ".", "z", "o", "t", "e", "r",
      "o", ".", "o", "r", "g", "/", "u", "s", "e", "r", "s", "/">> \o user_id
      \o <<"/", "p", "u", "b", "l", "i", "c", "a", "t", "i", "o", "n", "s", "/", "i", "t",
           "e", "m", "s", "?", "f", "o", "r", "m", "a", "t", "=">>
      \o (IF format = "json" THEN <<"j", "s", "o", "n">> ELSE <<"b", "i", "b", "t", "e", "x">>)
      \o <<"&", "l", "i", "m", "i", "t", "=">> \o str(limit)
      \o <<"&", "s", "t", "a", "r", "t", "=">> \o str(start_)

AuthenticationFailed ==
    <<"Z", "o", "t", "e", "r", "o", " ", "M", "y", " ", "P", "u", "b", "l", "i", "c", "a",
      "t", "i", "o", "n", "s", " ", "a", "u", "t", "h", "e", "n", "t", "i", "c", "a", "t",
      "i", "o", "n", " ", "f", "a", "i", "l", "e", "d", ":", " ", "I", "n", "v", "a", "l",
      "i", "d", " ", "A", "P", "I", " ", "k", "e", "y", ".", " ">>
      \o <<"P", "l", "e", "a", "s", "e", " ", "c", "h", "e", "c", "k", " ", "y", "o", "u",
           "r", " ", "A", "P", "I", " ", "k", "e", "y", " ", "a", "t", ":", " ", "h", "t",
           "t", "p", "s", ":", "/", "/", "w", "w", "w", ".", "z", "o", "t", "e", "r", "o",
           ".", "o", "r", "g", "/", "s", "e", "t", "t", "i", "n", "g", "s", "/", "k", "e",
           "y", "s">>

FailedToFetch == <<"F", "a", "i", "l", "e", "d", " ", "t", "o", " ", "f", "e", "t", "c",
                   "h", " ", "M", "y", " ", "P", "u", "b", "l", "i", "c", "a", "t", "i",
                   "o", "n", "s", ":", " ">>

\* str(e) of the HTTPError of response.raise_for_status()
HTTPErrorText(url) == <<"5", "0", "0", " ", "S", "e", "r", "v", "e", "r", " ", "E", "r",
                        "r", "o", "r", ":", " ", "I", "n", "t", "e", "r", "n", "a", "l",
                        " ", "S", "e", "r", "v", "e", "r", " ", "E", "r", "r", "o", "r",
                        " ", "f", "o", "r", " ", "u", "r", "l", ":", " ">> \o url

\* str(e) of the ValueError that _fetch_my_publications raises when the
\* request of a page fails as kind says
MyPublicationsError(kind, url) ==
    IF kind = "403" THEN FailedToFetch \o AuthenticationFailed
    ELSE IF kind = "404" THEN FailedToFetch \o <<"M", "y", " ", "P", "u", "b", "l", "i",
                                                 "c", "a", "t", "i", "o", "n", "s", " ",
                                                 "e", "n", "d", "p", "o", "i", "n", "t",
                                                 " ", "n", "o", "t", " ", "f", "o", "u",
                                                 "n", "d">>
    ELSE IF kind = "ConnectionError"
    THEN <<"Z", "o", "t", "e", "r", "o", " ", "M", "y", " ", "P", "u", "b", "l", "i", "c",
           "a", "t", "i", "o", "n", "s", " ", "c", "o", "n", "n", "e", "c", "t", "i", "o",
           "n", " ", "f", "a", "i", "l", "e", "d", ":", " ", "N", "e", "t", "w", "o", "r",
           "k", " ", "e", "r", "r", "o", "r", ".", " ">>
           \o <<"P", "l", "e", "a", "s", "e", " ", "c", "h", "e", "c", "k", " ", "y", "o",
                "u", "r", " ", "i", "n", "t", "e", "r", "n", "e", "t", " ", "c", "o", "n",
                "n", "e", "c", "t", "i", "o", "n", ".">>
    ELSE IF IsSubstring(<<"4", "0", "3">>, lower(HTTPErrorText(url)))
              \/ IsSubstring(<<"f", "o", "r", "b", "i", "d", "d", "e",
                               "n">>, lower(HTTPErrorText(url)))
    THEN AuthenticationFailed
    ELSE FailedToFetch \o HTTPErrorText(url)

\* str(e) of the ValueError of _autodiscover_user_id: the response of an
\* HTTPError is false, so its status is reported as unknown
AutodiscoverError(kind) ==
    IF kind = "ConnectionError"
    THEN <<"F", "a", "i", "l", "e", "d", " ", "t", "o", " ", "a", "u", "t", "o", "-", "d",
           "i", "s", "c", "o", "v", "e", "r", " ", "u", "s", "e", "r", " ", "I", "D", ":",
           " ", "N", "e", "t", "w", "o", "r", "k", " ", "e", "r", "r", "o", "r", ".", " ">>
           \o <<"P", "l", "e", "a", "s", "e", " ", "c", "h", "e", "c", "k", " ", "y", "o",
                "u", "r", " ", "i", "n", "t", "e", "r", "n", "e", "t", " ", "c", "o", "n",
                "n", "e", "c", "t", "i", "o", "n", " ", "o", "r", " ", "p", "r", "o", "v",
                "i", "d", "e", " ", "u", "s", "e", "r", " ", "I", "D", " ", "m", "a", "n",
                "u", "a", "l", "l", "y", ".">>
    ELSE <<"F", "a", "i", "l", "e", "d", " ", "t", "o", " ", "a", "u", "t", "o", "-", "d",
           "i", "s", "c", "o", "v", "e", "r", " ", "u", "s", "e", "r", " ", "I", "D", ":",
           " ", "H", "T", "T", "P", " ", "u", "n", "k", "n", "o", "w", "n", " ", "e", "r",
           "r", "o", "r", ".", " ">>
           \o <<"P", "l", "e", "a", "s", "e", " ", "c", "h", "e", "c", "k", " ", "y", "o",
                "u", "r", " ", "A", "P", "I", " ", "k", "e", "y", " ", "o", "r", " ", "p",
                "r", "o", "v", "i", "d", "e", " ", "u", "s", "e", "r", " ", "I", "D", " ",
                "m", "a", "n", "u", "a", "l", "l", "y", ".">>

\* the test of fetch on the exception of _fetch_my_publications:
\* "404" in error_msg or "not found" in error_msg
fetch_falls_back(error_msg) ==
    IsSubstring(<<"4", "0", "4">>, lower(error_msg)) \/ IsSubstring(<<"n", "o", "t", " ",
                  "f", "o", "u", "n", "d">>, lower(error_msg))

\* whether the loop of _fetch_my_publications goes on to the next page:
\* sources.py counts the items of the response, zotero_source.py the
\* publications parsed from them
_fetch_my_publications_continues(module_, format, items, page_pubs) ==
    IF module_ = "sources"
    THEN format = "json" /\ items # <<>> /\ ~(Len(items) < limit)
    ELSE page_pubs # <<>> /\ ~(format = "bibtex" \/ Len(page_pubs) < limit)

\* user_id = self.config.group_id, or the user id that the key belongs to
UserId == IF config.group_id # <<>> THEN config.group_id ELSE <<"1", "2", "3", "4", "5", "6">>

\* fetch() up to the first request of a page or of the regular library
Fetch ==
    /\ fetching = "idle"
    /\ call' = "fetch"
    /\ args' = <<config>>
    /\ start' = 0
    /\ publications' = <<>>
    /\ IF config.use_my_publications /\ config.library_type = "user"
       THEN IF config.group_id = <<>>
            THEN /\ requested' = Append(requested, [endpoint |-> "keys/current", start |-> 0])
                 /\ IF server.keys_current = "200"
                    THEN fetching' = "my publications" /\ ret' = ret
                    ELSE IF fetch_falls_back(AutodiscoverError(server.keys_current))
                    THEN fetching' = "library" /\ ret' = ret
                    ELSE /\ fetching' = "done"
                         /\ ret' = [exception |-> "ValueError",
                                    message |-> AutodiscoverError(server.keys_current)]
            ELSE fetching' = "my publications" /\ UNCHANGED <<requested, ret>>
       ELSE fetching' = "library" /\ UNCHANGED <<requested, ret>>
    /\ ret_is' = {}
    /\ UNCHANGED <<similarity_threshold, year_tolerance, potential_threshold, pub1, pub2,
                   source_pubs, reference_pubs, existing_keys, http_session, pure>>
    /\ UNCHANGED <<module, config, server>>

\* one turn of "while True" in _fetch_my_publications: the request of the
\* page at start, and what follows it without a further request, up to the
\* return or the exception of fetch
FetchMyPublicationsPage ==
    /\ fetching = "my publications"
    /\ requested' = Append(requested, [endpoint |-> "publications/items", start |-> start])
    /\ LET items == Items(server.total, start, limit)
           page_pubs == ParsedItems(items, server.notes)
           error_msg == MyPublicationsError(server.failure.kind,
                                            MyPublicationsUrl(UserId, config.format, start))
       IN  IF server.failure.kind # "none" /\ server.failure.start = start
           THEN /\ UNCHANGED <<publications, start>>
                /\ IF fetch_falls_back(error_msg)
                   THEN fetching' = "library" /\ ret' = ret
                   ELSE /\ fetching' = "done"
                        /\ ret' = [exception |-> "ValueError", message |-> error_msg]
           ELSE /\ publications' = publications \o page_pubs
                /\ IF _fetch_my_publications_continues(module, config.format, items, page_pubs)
                   THEN start' = start + limit /\ fetching' = fetching /\ ret' = ret
                   ELSE start' = start /\ fetching' = "done" /\ ret' = [value |-> publications']
    /\ UNCHANGED <<similarity_threshold, year_tolerance, potential_threshold, pub1, pub2,
                   source_pubs, reference_pubs, existing_keys, http_session, pure>>
    /\ UNCHANGED <<module, config, server, call, args, ret_is>>

\* _fetch_library_items(): self.zot.everything(self.zot.top()) and the
\* parsing of its items
FetchLibraryItems ==
    /\ fetching = "library"
    /\ requested' = Append(requested, [endpoint |-> "items/top", start |-> 0])
    /\ fetching' = "done"
    /\ IF server.library = "200"
       THEN /\ publications' = ParsedItems(Items(server.total, 0, server.total), server.notes)
            /\ ret' = [value |-> publications']
       ELSE /\ publications' = <<>>
            /\ ret' = [exception |-> "ValueError",
                       message |-> <<"F", "a", "i", "l", "e", "d", " ", "t", "o", " ", "f",
                                     "e", "t", "c", "h", " ", "Z", "o", "t", "e", "r", "o",
                                     " ", "d", "a", "t", "a", ":", " ">>]
    /\ UNCHANGED <<similarity_threshold, year_tolerance, potential_threshold, pub1, pub2,
                   source_pubs, reference_pubs, existing_keys, http_session, pure>>
    /\ UNCHANGED <<module, config, server, start, call, args, ret_is>>

Modules == {"sources", "zotero_source"}

\* collections of up to MaxPages full pages, and one item more or less
Totals ==
    {k * limit + r : k \in 0..MaxPages, r \in {0, 1, limit - 1}}

\* the items that are no publications: none, the first of a page, or the
\* whole first page
Notes == {{}, {0}, {limit}, 0..(limit - 1)}

Failures ==
    {NoFailure}
      \cup {[start |-> k * limit, kind |-> kind] :
              k \in 0..1, kind \in {"403", "404", "500", "ConnectionError"}}

UserIds == {<<"1", "2", "3", "4", "5", "6">>, <<"1", "4", "0", "4">>, <<>>}

InitZotero ==
    /\ similarity_threshold = Rat(8, 10)
    /\ year_tolerance = 1
    /\ potential_threshold = Rat(5, 10)
    /\ pub1 = SparsePub
    /\ pub2 = SparsePub
    /\ source_pubs = <<>>
    /\ reference_pubs = <<>>
    /\ publications = <<>>
    /\ existing_keys = <<>>
    /\ call = "none"
    /\ args = <<>>
    /\ ret = <<>>
    /\ ret_is = {}
    /\ PureSource
    /\ HTTPSessionManager
    /\ module \in Modules
    /\ \/ /\ config = ZoteroConfig(TRUE, "user", "json", <<"1", "2", "3", "4", "5", "6">>)
          /\ \E total \in Totals, notes \in Notes :
                server = Server(total, notes, NoFailure, "200", "200")
       \/ /\ config \in {ZoteroConfig(use_my_publications, library_type, format, group_id) :
                           use_my_publications \in BOOLEAN, library_type \in {"user", "group"},
                           format \in {"json", "bibtex"}, group_id \in UserIds}
          /\ config.library_type = "group" => config.group_id # <<>>
          /\ \E total \in {0, 1, limit + 1}, failure \in Failures,
                keys_current \in {"200", "403", "ConnectionError"},
                library \in {"200", "error"} :
                server = Server(total, {}, failure, keys_current, library)
    /\ requested = <<>>
    /\ start = 0
    /\ fetching = "idle"

NextZotero == Fetch \/ FetchMyPublicationsPage \/ FetchLibraryItems

SpecZotero == InitZotero /\ [][NextZotero]_vars

(***************************************************************************)
(* A comparison of a list with itself, at the default settings of          *)
(* PublicationMatcher: cli._analyze_publications when every source         *)
(* publication is in the Zotero library unchanged.                         *)
(***************************************************************************)
SameFull ==
    Publication(<<"a", " ", "b">>, <<AuLi>>, 2022, None, <<"N", "a", "t">>)
SameNoYear == Publication(<<"a", " ", "b">>, <<AuAlLi>>, 0, None, None)
SameNoYearDoi ==
    Publication(<<"a", " ", "b", " ", "c">>, <<AuLi, AuBo>>, 0, <<"1", "0", "/", "a">>, None)
SamePunctuation == Publication(<<".">>, <<AuBo>>, 2021, None, None)
SameTwoAuthors ==
    Publication(<<"A", " ", "b", ",", " ", "c", " ", " ", "D", ".">>, <<AuLi, AuPlato>>,
                2023, None, None)
SameNoAuthors == Publication(<<"d", " ", "c">>, <<>>, 2022, None, None)

SamePubs ==
    {SameFull, SameNoYear, SameNoYearDoi, SamePunctuation, SameTwoAuthors, SameNoAuthors}

InitSame ==
    /\ similarity_threshold = Rat(8, 10)
    /\ year_tolerance = 1
    /\ potential_threshold = Rat(5, 10)
    /\ pub1 \in SamePubs
    /\ pub2 = pub1
    /\ source_pubs \in ListsUpTo(SamePubs, MaxSame)
    /\ reference_pubs = source_pubs
    /\ publications = <<>>
    /\ existing_keys = <<>>
    /\ call = "none"
    /\ args = <<>>
    /\ ret = <<>>
    /\ ret_is = {}
    /\ PureSource
    /\ ZoteroSource
    /\ HTTPSessionManager

NextSame == MatchPublications \/ FindMissing

SpecSame == InitSame /\ [][NextSame]_vars

(***************************************************************************)
(* A pair of publications matched in both orders on one matcher, as when   *)
(* the same two records come once from the source list and once from the   *)
(* reference list.                                                         *)
(***************************************************************************)
MatchPublicationsBothWays ==
    /\ call' = "match_publications both ways"
    /\ args' = <<pub1, pub2>>
    /\ ret' = [forward |-> match_publications(Self, pub1, pub2),
               backward |-> match_publications(Self, pub2, pub1)]
    /\ ret_is' = {}
    /\ UNCHANGED inputs

NextBothWays == MatchPublicationsBothWays

SpecBothWays == Init /\ [][NextBothWays]_vars

(***************************************************************************)
(* puby/reporter.py: AnalysisReporter.generate_sync_recommendations on an  *)
(* AnalysisResult whose duplicate groups hold up to MaxGroup publications  *)
(* each.  Publication is a dataclass, so "pub != primary" compares the     *)
(* fields of the two publications, which is the equality of records.       *)
(***************************************************************************)
ReportedPub(doi, abstract, url) ==
    [title |-> <<"a", " ", "b">>, authors |-> <<AuLi>>, year |-> 2022, doi |-> doi,
     journal |-> None, abstract |-> abstract, url |-> url]

ReportedPlain == ReportedPub(None, None, None)
ReportedFull == ReportedPub(<<"1", "0", "/", "a">>, <<"x">>, <<"u">>)

ReportedPubs == {ReportedPlain, ReportedFull}

AnalysisResult(missing_publications, duplicate_groups, potential_matches, total_source_publications, total_reference_publications) ==
    [missing_publications |-> missing_publications,
     duplicate_groups |-> duplicate_groups,
     potential_matches |-> potential_matches,
     total_source_publications |-> total_source_publications,
     total_reference_publications |-> total_reference_publications]

SyncRecommendation(action_type, publication, reason, confidence) ==
    [action_type |-> action_type, publication |-> publication, reason |-> reason,
     confidence |-> confidence]

\* completeness_score(pub) in _select_primary_publication
completeness_score(pub) ==
    (IF pub.title # <<>> THEN 1 ELSE 0)
      + (IF pub.authors # <<>> THEN Len(pub.authors) ELSE 0)
      + (IF pub.year # 0 THEN 1 ELSE 0)
      + (IF pub.doi # <<>> THEN 2 ELSE 0)
      + (IF pub.journal # <<>> THEN 1 ELSE 0)
      + (IF pub.abstract # <<>> THEN 1 ELSE 0)
      + (IF pub.url # <<>> THEN 1 ELSE 0)

\* max(publications, key=completeness_score): the first publication with the
\* largest score; called with a non-empty list only
_select_primary_publication(publications_) ==
    LET best == CHOOSE i \in 1..Len(publications_) :
                    /\ \A j \in 1..Len(publications_) :
                           completeness_score(publications_[j])
                               <= completeness_score(publications_[i])
                    /\ \A j \in 1..(i - 1) :
                           completeness_score(publications_[j])
                               < completeness_score(publications_[i])
    IN  publications_[best]

\* the recommendations of one duplicate group
RemoveDuplicates(group) ==
    IF Len(group) > 1
    THEN LET primary == _select_primary_publication(group)
             Remove(pub) ==
                 SyncRecommendation("remove", pub, "Duplicate of better entry",
                                    Rat(85, 100))
             RECURSIVE Others(_)
             Others(pubs) ==
                 IF pubs = <<>> THEN <<>>
                 ELSE (IF Head(pubs) # primary THEN <<Remove(Head(pubs))>> ELSE <<>>)
                        \o Others(Tail(pubs))
         IN  Others(group)
    ELSE <<>>

\* f"{confidence:.0%}": the confidence in per cent, rounded half to even
Percent(confidence) ==
    LET q == (100 * confidence[1]) \div confidence[2]
        r == (100 * confidence[1]) % confidence[2]
    IN  IF 2 * r < confidence[2] THEN q
        ELSE IF 2 * r > confidence[2] THEN q + 1
        ELSE IF q % 2 = 0 THEN q ELSE q + 1

generate_sync_recommendations(result) ==
    LET Add(pub) ==
            SyncRecommendation("add", pub, "Missing in reference library", Rat(95, 100))
        Review(match) ==
            SyncRecommendation("review", match.source_publication,
                               <<"Potential match with ", Percent(match.confidence),
                                 "% confidence">>,
                               match.confidence)
        top == SubSeq(result.potential_matches, 1, Min(5, Len(result.potential_matches)))
    IN  [i \in 1..Len(result.missing_publications) |-> Add(result.missing_publications[i])]
          \o Concat([i \in 1..Len(result.duplicate_groups) |->
                        RemoveDuplicates(result.duplicate_groups[i])])
          \o [i \in 1..Len(top) |-> Review(top[i])]

\* the duplicate groups of an analysis result
Groups == ListsUpTo(ReportedPubs, MaxGroup) \ {<<>>}

InitReporter ==
    /\ similarity_threshold = Rat(8, 10)
    /\ year_tolerance = 1
    /\ potential_threshold = Rat(5, 10)
    /\ pub1 = BasePub
    /\ pub2 = BasePub
    /\ source_pubs = <<>>
    /\ reference_pubs = <<>>
    /\ publications = <<>>
    /\ existing_keys = <<>>
    /\ call = "none"
    /\ args = <<>>
    /\ ret = <<>>
    /\ ret_is = {}
    /\ PureSource
    /\ ZoteroSource
    /\ HTTPSessionManager

GenerateSyncRecommendations ==
    \E missing_publications \in ListsUpTo(ReportedPubs, 1),
       duplicate_groups \in ListsUpTo(Groups, MaxGroups),
       potential_matches \in ListsUpTo({PotentialMatch(ReportedPlain, ReportedFull,
                                                       Rat(7, 10))}, 1) :
        LET result == AnalysisResult(missing_publications, duplicate_groups,
                                     potential_matches, 10, 8)
        IN  /\ call = "none"
            /\ call' = "generate_sync_recommendations"
            /\ args' = <<result>>
            /\ ret' = generate_sync_recommendations(result)
            /\ ret_is' = {}
            /\ UNCHANGED inputs

NextReporter == GenerateSyncRecommendations

SpecReporter == InitReporter /\ [][NextReporter]_vars

(***************************************************************************)
(* PureSource.fetch: the attempt on the API and the pages fetched by       *)
(* _fetch_from_html.  The server is free in every answer: each page is     *)
(* any of Pages.  A page is given by what the code looks up in it: the     *)
(* number of publications _parse_html_page finds, the href of the link in  *)
(* div.load-more, the hrefs of the links whose text says "next", and the   *)
(* hrefs that hold page=<number>; a link without href has href None.       *)
(***************************************************************************)
PureUrl == <<"h", "t", "t", "p", "s", ":", "/", "/", "p", ".", "i", "o", "/", "p", "e", "r",
             "s", "o", "n", "s", "/", "a", "l">>

SecondPage == <<"?", "p", "a", "g", "e", "=", "2">>

Page(status, pubs, load_more, next_links, page_links) ==
    [status |-> status, pubs |-> pubs, load_more |-> load_more,
     next_links |-> next_links, page_links |-> page_links]

Pages ==
    {Page("200", pubs, load_more, next_links, page_links) :
        pubs \in {0, 1}, load_more \in {None, SecondPage},
        next_links \in {<<>>, <<None, SecondPage>>, <<PureUrl>>},
        page_links \in {<<>>, <<<<"?", "p", "a", "g", "e", "=", "1">>, SecondPage>>}}
      \cup {Page(status, 0, None, <<>>, <<>>) : status \in {"500", "ConnectionError"}}

\* urljoin(current_url, next_url) for an absolute next_url and for one that
\* is a query
RECURSIVE BeforeQuery(_)
BeforeQuery(url) ==
    IF url = <<>> \/ Head(url) = "?" THEN <<>> ELSE <<Head(url)>> \o BeforeQuery(Tail(url))

urljoin(base, url) ==
    IF startswith(url, <<"h", "t", "t", "p">>) THEN url ELSE BeforeQuery(base) \o url

\* "for link in next_links: href = link.get("href"); if href: return href"
RECURSIVE FirstHref(_)
FirstHref(hrefs) ==
    IF hrefs = <<>> THEN None
    ELSE IF Head(hrefs) # <<>> THEN Head(hrefs)
    ELSE FirstHref(Tail(hrefs))

\* the numeric pagination of pure_source.py, where current_page is 1: the
\* first href that holds "page=2"
RECURSIVE FirstNumbered(_)
FirstNumbered(hrefs) ==
    IF hrefs = <<>> THEN None
    ELSE IF IsSubstring(<<"p", "a", "g", "e", "=", "2">>, Head(hrefs)) THEN Head(hrefs)
    ELSE FirstNumbered(Tail(hrefs))

_find_next_page_url(module_, soup) ==
    IF module_ = "pure_source"
    THEN IF FirstHref(soup.next_links) # None
         THEN FirstHref(soup.next_links)
         ELSE FirstNumbered(soup.page_links)
    ELSE IF soup.load_more # None THEN soup.load_more
         ELSE IF soup.next_links # <<>> THEN Head(soup.next_links)
         ELSE None

\* fetch(): the request of the API, which is answered with the research
\* outputs, with another status or not at all
PureFetch ==
    /\ fetching = "idle"
    /\ call' = "fetch"
    /\ args' = <<PureUrl>>
    /\ \E api \in {"200", "404", "ConnectionError"}, outputs \in {0, 1} :
          /\ requested' = Append(requested, [endpoint |-> "research-outputs", url |-> PureUrl])
          /\ IF api = "200"
             THEN /\ fetching' = "done"
                  /\ ret' = [value |-> [i \in 1..outputs |-> "publication"]]
                  /\ UNCHANGED <<publications, pure>>
             ELSE /\ fetching' = "_fetch_from_html"
                  /\ publications' = <<>>
                  /\ current_url' = PureUrl
                  /\ page_count' = 0
                  /\ ret' = ret
    /\ ret_is' = {}
    /\ UNCHANGED <<similarity_threshold, year_tolerance, potential_threshold, pub1, pub2,
                   source_pubs, reference_pubs, existing_keys, http_session>>
    /\ UNCHANGED <<module, config, server, start>>

\* the test of "while" in _fetch_from_html once next_url is the current URL
\* and page_count the number of pages counted
_fetch_from_html_continues(module_, next_url, pages) ==
    /\ next_url # <<>>
    /\ module_ = "pure_source" => pages < max_pages

\* one turn of "while" in _fetch_from_html: the request of current_url and
\* what follows it without a further request, up to the return
FetchPurePage ==
    /\ fetching = "_fetch_from_html"
    /\ Len(requested) < MaxRequests
    /\ requested' = Append(requested, [endpoint |-> "page", url |-> current_url])
    /\ \E soup \in Pages :
          LET page_pubs == [i \in 1..soup.pubs |-> "publication"]
              next_url == _find_next_page_url(module, soup)
          IN  IF soup.status # "200"
              THEN /\ fetching' = "done"
                   /\ ret' = [value |-> IF module = "pure_source" THEN <<>> ELSE publications]
                   /\ UNCHANGED <<publications, pure>>
              ELSE IF module = "pure_source" /\ page_pubs = <<>>
              THEN /\ fetching' = "done"
                   /\ ret' = [value |-> publications]
                   /\ UNCHANGED <<publications, pure>>
              ELSE /\ publications' = publications \o page_pubs
                   /\ IF next_url # <<>>
                      THEN /\ current_url' = urljoin(current_url, next_url)
                           /\ page_count' = IF module = "pure_source" THEN page_count + 1
                                            ELSE page_count
                           /\ IF _fetch_from_html_continues(module, current_url', page_count')
                              THEN fetching' = fetching /\ ret' = ret
                              ELSE fetching' = "done" /\ ret' = [value |-> publications']
                      ELSE /\ fetching' = "done"
                           /\ ret' = [value |-> publications']
                           /\ UNCHANGED pure
    /\ UNCHANGED <<similarity_threshold, year_tolerance, potential_threshold, pub1, pub2,
                   source_pubs, reference_pubs, existing_keys, http_session>>
    /\ UNCHANGED <<module, config, server, start, call, args, ret_is>>

InitPure ==
    /\ similarity_threshold = Rat(8, 10)
    /\ year_tolerance = 1
    /\ potential_threshold = Rat(5, 10)
    /\ pub1 = SparsePub
    /\ pub2 = SparsePub
    /\ source_pubs = <<>>
    /\ reference_pubs = <<>>
    /\ publications = <<>>
    /\ existing_keys = <<>>
    /\ call = "none"
    /\ args = <<>>
    /\ ret = <<>>
    /\ ret_is = {}
    /\ HTTPSessionManager
    /\ PureSource
    /\ module \in {"sources", "pure_source"}
    /\ config = ZoteroConfig(FALSE, "user", "json", <<"1", "2", "3", "4", "5", "6">>)
    /\ server = Server(0, {}, NoFailure, "200", "200")
    /\ requested = <<>>
    /\ start = 0
    /\ fetching = "idle"

NextPure == PureFetch \/ FetchPurePage

SpecPure == InitPure /\ [][NextPure]_vars

(***************************************************************************)
(* Properties of match_publications.  The signals of section 4.4 are       *)
(* restated here one by one; the properties relate them to the result the  *)
(* code returns.                                                           *)
(***************************************************************************)
Matched == call = "match_publications"

BothDois == pub1.doi # <<>> /\ pub2.doi # <<>>

\* equal after trimming and ignoring letter case
DoisEqual == lower(strip(pub1.doi)) = lower(strip(pub2.doi))

BothTitles == pub1.title # <<>> /\ pub2.title # <<>>

\* the title similarity the engine was described to use (4.2, steps 1-5)
EnhancedTitleSimilarity ==
    calculate_enhanced_title_similarity(normalize_text(pub1.title),
                                        normalize_text(pub2.title))

\* the length-penalised variant of 4.2
PenalizedTitleSimilarity ==
    calculate_title_similarity_with_length_penalty(pub1.title, pub2.title)

TitleSignal(sim) ==
    IF BothTitles /\ RLt(Rat(6, 10), sim) THEN RMul(sim, Rat(1, 2)) ELSE Zero

YearSignal ==
    IF /\ pub1.year # 0 /\ pub2.year # 0
       /\ Abs(pub1.year - pub2.year) <= year_tolerance
    THEN RMul(RMax(Zero, RSub(One, Rat(Abs(pub1.year - pub2.year), year_tolerance + 1))),
              Rat(1, 5))
    ELSE Zero

AuthorTokens(authors) == {_normalize_author_name(authors[i]) : i \in 1..Len(authors)}

AuthorSignal ==
    LET t1 == AuthorTokens(pub1.authors)
        t2 == AuthorTokens(pub2.authors)
        sim == IF t1 = {} \/ t2 = {} THEN Zero
               ELSE Rat(Cardinality(t1 \cap t2), Cardinality(t1 \cup t2))
    IN  IF RLt(Rat(3, 10), sim) THEN RMul(sim, Rat(1, 5)) ELSE Zero

JournalSignal ==
    IF /\ pub1.journal # <<>> /\ pub2.journal # <<>>
       /\ normalize_text(pub1.journal) = normalize_text(pub2.journal)
    THEN Rat(1, 10)
    ELSE Zero

\* what the signal behind a reason added to the confidence of this pair
Contribution(reason) ==
    CASE reason = "doi" -> IF BothDois /\ DoisEqual THEN One ELSE Zero
      [] reason = "title" ->
            IF BothDois THEN Zero ELSE TitleSignal(PenalizedTitleSimilarity)
      [] reason = "year" -> IF BothDois THEN Zero ELSE YearSignal
      [] reason = "authors" -> IF BothDois THEN Zero ELSE AuthorSignal
      [] reason = "journal" -> IF BothDois THEN Zero ELSE JournalSignal

RECURSIVE SumContributions(_)
SumContributions(reasons) ==
    IF reasons = <<>> THEN Zero
    ELSE RAdd(Contribution(Head(reasons)), SumContributions(Tail(reasons)))

Reasons == ToSet(ret.match_reasons)

\* C1: when both publications carry a non-empty DOI the result is decided by
\* the DOIs alone: equal after trimming and ignoring case gives confidence 1.0,
\* is_match and reasons ["doi"]; otherwise confidence 0.0, no match, no reasons.
C1_DoiDecides ==
    (Matched /\ BothDois) =>
        IF DoisEqual
        THEN /\ ret.confidence = One
             /\ ret.is_match = TRUE
             /\ ret.match_reasons = <<"doi">>
        ELSE /\ ret.confidence = Zero
             /\ ret.is_match = FALSE
             /\ ret.match_reasons = <<>>

C1_Witness ==
    /\ Matched /\ BothDois /\ DoisEqual
    /\ pub1.doi # pub2.doi
    /\ pub1.title # pub2.title
    /\ pub1.year # pub2.year
    /\ similarity_threshold = Rat(95, 100)
    /\ ret.is_match

\* C2 as stated: the title signal is the containment-enhanced similarity; it
\* adds similarity x 0.5 and records "title" exactly when it is above 0.6.
C2_EnhancedTitleSignal ==
    (Matched /\ ~BothDois /\ BothTitles) =>
        /\ ("title" \in Reasons) <=> RLt(Rat(6, 10), EnhancedTitleSimilarity)
        /\ ret.confidence =
              RMin(One, RAdd(TitleSignal(EnhancedTitleSimilarity),
                             RAdd(YearSignal, RAdd(AuthorSignal, JournalSignal))))

\* C2 amended: the title signal is the length-penalised similarity (1.0 for
\* equal normalised titles, else Jaccard x min/max of the word counts); it adds
\* similarity x 0.5 and records "title" exactly when it is above 0.6.
C2_PenalizedTitleSignal ==
    (Matched /\ ~BothDois /\ BothTitles) =>
        /\ ("title" \in Reasons) <=> RLt(Rat(6, 10), PenalizedTitleSimilarity)
        /\ ret.confidence =
              RMin(One, RAdd(TitleSignal(PenalizedTitleSimilarity),
                             RAdd(YearSignal, RAdd(AuthorSignal, JournalSignal))))

C2_Witness ==
    /\ Matched /\ ~BothDois /\ BothTitles
    /\ "title" \in Reasons
    /\ RLt(PenalizedTitleSimilarity, One)
    /\ PenalizedTitleSimilarity # EnhancedTitleSimilarity

ConfidenceInRange == RLeq(Zero, ret.confidence) /\ RLeq(ret.confidence, One)

ConfidenceIsCappedSum ==
    ret.confidence = RMin(SumContributions(ret.match_reasons), One)

\* C3 as stated: for every pair and every configuration the confidence is in
\* [0, 1], is min(sum of the recorded signals, 1.0), and is_match holds exactly
\* when the confidence is >= similarity_threshold.
C3_ThresholdAlways ==
    Matched =>
        /\ ConfidenceInRange
        /\ ConfidenceIsCappedSum
        /\ ret.is_match <=> RLeq(similarity_threshold, ret.confidence)

\* C3 amended: the confidence is in [0, 1] and is min(sum of the recorded
\* signals, 1.0) for every pair; is_match holds exactly when the confidence is
\* >= similarity_threshold for every pair of which at least one publication has
\* no DOI.
C3_ThresholdWithoutDois ==
    Matched =>
        /\ ConfidenceInRange
        /\ ConfidenceIsCappedSum
        /\ ~BothDois => (ret.is_match <=> RLeq(similarity_threshold, ret.confidence))

C3_Witness ==
    /\ Matched /\ ~BothDois
    /\ similarity_threshold = Rat(8, 10)
    /\ ret.confidence = similarity_threshold
    /\ ret.is_match
    /\ ret.match_reasons = <<"title", "year", "authors">>

ReasonOrder == <<"title", "year", "authors", "journal">>

\* s lists some of the entries of ReasonOrder, each once, in that order
InReasonOrder(s) ==
    /\ Reasons \subseteq ToSet(ReasonOrder)
    /\ s = SelectSeq(ReasonOrder, LAMBDA r : r \in Reasons)

\* C10: match_reasons hold no reason twice, are ["doi"] or follow the order
\* title, year, authors, journal, and hold a reason exactly when its signal
\* added a positive amount to the confidence.
C10_ReasonsReflectSignals ==
    Matched =>
        /\ Cardinality(Reasons) = Len(ret.match_reasons)
        /\ ret.match_reasons = <<"doi">> \/ InReasonOrder(ret.match_reasons)
        /\ \A r \in ToSet(ReasonOrder) \cup {"doi"} :
              (r \in Reasons) <=> RLt(Zero, Contribution(r))

C10_Witness ==
    /\ Matched
    /\ ret.match_reasons = <<"year", "journal">>
    /\ BothTitles
    /\ pub1.authors # <<>> /\ pub2.authors # <<>>

(***************************************************************************)
(* Properties of the list operations.                                      *)
(***************************************************************************)
IsMatch(p, q) == match_publications(Self, p, q).is_match
Confidence(p, q) == match_publications(Self, p, q).confidence

\* C4: find_missing(S, R) is the sublist of S, in order, of the publications
\* that no publication of R matches; find_missing([], R) = [] and
\* find_missing(S, []) = S.
C4_MissingAreUnmatched ==
    call = "find_missing" =>
        /\ ret = SelectSeq(source_pubs,
                           LAMBDA p : \A j \in 1..Len(reference_pubs) :
                                          ~IsMatch(p, reference_pubs[j]))
        /\ source_pubs = <<>> => ret = <<>>
        /\ reference_pubs = <<>> => ret = source_pubs

C4_Witness ==
    /\ call = "find_missing"
    /\ Len(source_pubs) = 2
    /\ Len(reference_pubs) = 2
    /\ ret = <<source_pubs[2]>>
    /\ source_pubs[1] # source_pubs[2]
    /\ ~IsMatch(source_pubs[1], reference_pubs[1])

DefaultMatches(p, q) == matches(p, q, MatchesThreshold)

\* C5 as stated: for [A, A2, B] with A.matches(A2) (Publication.matches) and
\* neither A nor A2 matching B, find_duplicates returns exactly [[A, A2]].
C5_GroupByPublicationMatches ==
    ( /\ call = "find_duplicates"
      /\ Len(publications) = 3
      /\ DefaultMatches(publications[1], publications[2])
      /\ ~DefaultMatches(publications[1], publications[3])
      /\ ~DefaultMatches(publications[2], publications[3]) )
    => ret.groups = << <<publications[1], publications[2]>> >>

\* C5 amended: for [A, A2, B] where match_publications(A, A2).is_match holds
\* and neither match_publications(A, B) nor match_publications(A2, B) is a
\* match, find_duplicates returns exactly [[A, A2]].
C5_GroupByIsMatch ==
    ( /\ call = "find_duplicates"
      /\ Len(publications) = 3
      /\ IsMatch(publications[1], publications[2])
      /\ ~IsMatch(publications[1], publications[3])
      /\ ~IsMatch(publications[2], publications[3]) )
    => ret.groups = << <<publications[1], publications[2]>> >>

C5_Witness ==
    /\ call = "find_duplicates"
    /\ Len(publications) = 3
    /\ IsMatch(publications[1], publications[2])
    /\ ~IsMatch(publications[1], publications[3])
    /\ ~IsMatch(publications[2], publications[3])
    /\ publications[1] # publications[2]
    /\ ret.groups = << <<publications[1], publications[2]>> >>

\* C6: in a result of find_duplicates every group has at least two members,
\* no list position is in two groups or twice in one, every later member
\* matches the first member of its group, members are in input order and the
\* groups are ordered by the position of their first member.
C6_GroupsWellFormed ==
    call = "find_duplicates" =>
        LET P == ret.positions
            Slots == {<<g, k>> \in (1..Len(P)) \X (1..Len(publications)) : k <= Len(P[g])}
        IN  /\ Len(ret.groups) = Len(P)
            /\ \A g \in 1..Len(P) :
                  /\ Len(P[g]) >= 2
                  /\ ret.groups[g] = [k \in 1..Len(P[g]) |-> publications[P[g][k]]]
                  /\ \A k \in 2..Len(P[g]) :
                        /\ P[g][k - 1] < P[g][k]
                        /\ IsMatch(publications[P[g][1]], publications[P[g][k]])
            /\ \A x, y \in Slots : x # y => P[x[1]][x[2]] # P[y[1]][y[2]]
            /\ \A g \in 1..(Len(P) - 1) : P[g][1] < P[g + 1][1]

C6_Witness ==
    /\ call = "find_duplicates"
    /\ ret.positions = << <<1, 3>> >>
    /\ publications[1] # publications[3]

\* both directions of the match relation
Related(p, q) == IsMatch(p, q) /\ IsMatch(q, p)
Unrelated(p, q) == ~IsMatch(p, q) /\ ~IsMatch(q, p)
\* a matches b, b matches c, a does not match c
Chain(a, b, c) == Related(a, b) /\ Related(b, c) /\ Unrelated(a, c)

\* C9: when A matches B, B matches C and A does not match C, the list
\* [A, B, C] gives the one group [A, B] and leaves C out, while the same
\* publications in the order [B, A, C] give the one group [B, A, C].
C9_GreedyGrouping ==
    (call = "find_duplicates" /\ Len(publications) = 3) =>
        /\ Chain(publications[1], publications[2], publications[3])
              => ret.positions = << <<1, 2>> >>
        /\ Chain(publications[2], publications[1], publications[3])
              => ret.positions = << <<1, 2, 3>> >>

C9_Witness ==
    /\ call = "find_duplicates"
    /\ Len(publications) = 3
    /\ Chain(publications[1], publications[2], publications[3])
    /\ ret.groups = << <<publications[1], publications[2]>> >>

InBand(c) == RLeq(potential_threshold, c) /\ RLt(c, similarity_threshold)

\* entry e carries the confidence of result, which is in the band and no match
BandEntry(e, result) ==
    /\ e.confidence = result.confidence
    /\ InBand(e.confidence)
    /\ ~result.is_match

GeneratedPairs ==
    LET n == Len(reference_pubs)
        all == [k \in 1..(Len(source_pubs) * n) |->
                   LET p == source_pubs[((k - 1) \div n) + 1]
                       q == reference_pubs[((k - 1) % n) + 1]
                   IN  PotentialMatch(p, q, Confidence(p, q))]
    IN  SelectSeq(all, LAMBDA e : InBand(e.confidence))

\* result is in non-increasing order of confidence and, for every confidence,
\* its entries of that confidence are those of generated, in the same order
SortedStable(result, generated) ==
    /\ \A k \in 1..(Len(result) - 1) :
          RLeq(result[k + 1].confidence, result[k].confidence)
    /\ \A c \in {result[k].confidence : k \in 1..Len(result)}
                  \cup {generated[k].confidence : k \in 1..Len(generated)} :
          SelectSeq(result, LAMBDA e : e.confidence = c)
            = SelectSeq(generated, LAMBDA e : e.confidence = c)

\* C8: the result of find_potential_matches is in non-increasing order of
\* confidence and entries of equal confidence are in generation order.
C8_SortedStable ==
    call = "find_potential_matches" => SortedStable(ret, GeneratedPairs)

C8_Witness ==
    /\ call = "find_potential_matches"
    /\ ret # GeneratedPairs
    /\ \E k \in 1..(Len(ret) - 1) :
          /\ ret[k].confidence = ret[k + 1].confidence
          /\ ret[k] # ret[k + 1]

(***************************************************************************)
(* Properties of the author signal.                                        *)
(***************************************************************************)
\* the Jaccard index of two token sets, 0 when either is empty
TokenJaccard(tokens1, tokens2) ==
    IF tokens1 = {} \/ tokens2 = {} THEN Zero
    ELSE Rat(Cardinality(tokens1 \cap tokens2), Cardinality(tokens1 \cup tokens2))

FirstToken(name) == split(name)[1]
LastToken(name) == split(name)[Len(split(name))]

\* the token of C11 as stated: each part from its own field when that field
\* is present, otherwise from the name
FieldwiseToken(author) ==
    << IF author.family_name # <<>> THEN upper(author.family_name)
       ELSE upper(LastToken(author.name)),
       IF author.given_name # <<>> THEN upper(<<author.given_name[1]>>)
       ELSE upper(<<FirstToken(author.name)[1]>>) >>

\* the token of the code: "FAMILY, I" from the two fields when both are
\* present, otherwise from a name of two or more words, otherwise the whole
\* name in upper case
BothFieldsToken(author) ==
    IF author.family_name # <<>> /\ author.given_name # <<>>
    THEN upper(author.family_name) \o <<",", " ">> \o upper(<<author.given_name[1]>>)
    ELSE IF Len(split(author.name)) >= 2
    THEN upper(LastToken(author.name)) \o <<",", " ">>
           \o upper(<<FirstToken(author.name)[1]>>)
    ELSE upper(author.name)

AuthorSimilarityDone == call = "_calculate_author_similarity"

\* C11 as stated: the author similarity is the Jaccard index of the token
\* sets whose family part comes from family_name whenever it is present and
\* whose initial comes from given_name whenever it is present.
C11_FieldwiseTokens ==
    AuthorSimilarityDone =>
        ret = TokenJaccard({FieldwiseToken(pub1.authors[i]) : i \in 1..Len(pub1.authors)},
                           {FieldwiseToken(pub2.authors[i]) : i \in 1..Len(pub2.authors)})

\* C11 amended: the author similarity is the Jaccard index of the token sets
\* (0 if either is empty) where family_name and given_name are used only
\* when both are present, a name of two or more words gives its last word
\* and the initial of its first word otherwise, and a name of one word is
\* its own token.
C11_BothFieldsTokens ==
    AuthorSimilarityDone =>
        ret = TokenJaccard({BothFieldsToken(pub1.authors[i]) : i \in 1..Len(pub1.authors)},
                           {BothFieldsToken(pub2.authors[i]) : i \in 1..Len(pub2.authors)})

C11_Witness ==
    /\ AuthorSimilarityDone
    /\ pub1.authors = <<AuLiFamily, AuPlato>>
    /\ pub2.authors = <<AuLi, AuPlatoFamily>>
    /\ ret = Rat(1, 3)

(***************************************************************************)
(* Properties of match_publications on publications with missing fields.   *)
(***************************************************************************)
Raised == "exception" \in DOMAIN ret

\* the field behind a signal is None or empty in one of the publications
Missing(field) == ~Present(pub1, field) \/ ~Present(pub2, field)

SignalOrder == <<"doi", "title", "year", "authors", "journal">>

\* C12: match_publications never raises for publications whose title, year,
\* DOI, journal or author list is None or empty; a signal with a missing field
\* records no reason and adds nothing, and the confidence is the capped sum of
\* the signals whose fields are present, each recorded exactly when it added
\* a positive amount.
C12_MissingDisablesOwnSignal ==
    Matched =>
        /\ ~Raised
        /\ \A f \in ToSet(SignalOrder) :
              Missing(f) => f \notin ToSet(ret.match_reasons)
        /\ ret.confidence =
              RMin(SumContributions(SelectSeq(SignalOrder, LAMBDA f : ~Missing(f))),
                   One)
        /\ \A f \in ToSet(SignalOrder) :
              ~Missing(f) =>
                  (f \in ToSet(ret.match_reasons) <=> RLt(Zero, Contribution(f)))

C12_Witness ==
    /\ Matched /\ ~Raised
    /\ "title" \in pub1.none
    /\ "doi" \in pub2.none
    /\ pub2.journal = <<>> /\ "journal" \notin pub2.none
    /\ ret.match_reasons = <<"year", "authors">>
    /\ ret.confidence = Rat(3, 10)

(***************************************************************************)
(* The partial-title scenario.                                             *)
(***************************************************************************)
ConfidenceWithin(lo, hi) == RLeq(lo, ret.confidence) /\ RLt(ret.confidence, hi)

SameTitleText == normalize_text(pub1.title) = normalize_text(pub2.title)

SameWork ==
    /\ ~BothDois
    /\ SameTitleText
    /\ pub1.year = pub2.year
    /\ pub1.authors = pub2.authors

C15_NormalizeIdempotent ==
    /\ call = "_normalize_title" => _normalize_title(ret) = ret
    /\ call = "normalize_text" => normalize_text(ret) = ret
    /\ call = "_normalize_text" => _normalize_text(ret) = ret

C15_Witness ==
    /\ call = "_normalize_title"
    /\ pub1.title = <<"{", "{", "B", "}", "}">>
    /\ ret = <<"b">>

(***************************************************************************)
(* Properties of the title similarities.                                   *)
(***************************************************************************)
\* C16: title similarity is symmetric, similarity(a, b) = similarity(b, a),
\* for the two containment-enhanced functions and for the length-penalized
\* one.
C16_TitleSimilaritySymmetric ==
    /\ call = "_calculate_fuzzy_similarity" =>
          ret = _calculate_fuzzy_similarity(pub2.title, pub1.title)
    /\ call = "calculate_enhanced_title_similarity" =>
          ret = calculate_enhanced_title_similarity(pub2.title, pub1.title)
    /\ call = "_calculate_title_similarity" =>
          ret = _calculate_title_similarity(pub2.title, pub1.title)

C16_Witness ==
    /\ call = "_calculate_fuzzy_similarity"
    /\ pub1.title = <<"q", "u", "a", "n", "t", "u", "m">>
    /\ pub2.title = <<"q", "u", "a", "n", "t", "u", "m", " ", "c", "o", "m", "p", "u",
                      "t", "i", "n", "g">>
    /\ ret = RAdd(Rat(7, 17), Rat(2, 10))

(***************************************************************************)
(* Properties of the citation keys.                                        *)
(***************************************************************************)
Exported == call = "_export_missing_publications"

PairwiseDistinct(keys) == Cardinality(ToSet(keys)) = Len(keys)

\* the key returned by the last call was not in existing_keys when the call
\* was made
ReturnedKeyIsNew == ret \notin ToSet(args[2])

\* C17 as stated: in the key loop of the export every returned key is absent
\* from existing_keys at the moment of its call, and the keys of one batch are
\* pairwise distinct, whatever the number of publications.
C17_BatchKeysDistinct ==
    /\ Exported => ReturnedKeyIsNew
    /\ PairwiseDistinct(existing_keys)

\* C17 amended: through the first 27 publications of a batch (the base key
\* and its 26 suffixed forms) every returned key is absent from existing_keys
\* at the moment of its call and the keys are pairwise distinct.
C17_BatchKeysDistinctUpTo27 ==
    Len(existing_keys) <= Len(LowerLetters) + 1 =>
        /\ Exported => ReturnedKeyIsNew
        /\ PairwiseDistinct(existing_keys)

C17_Witness ==
    /\ Exported
    /\ Len(publications) = MaxBatch
    /\ Len(existing_keys) = Len(LowerLetters) + 1
    /\ \A i \in 1..Len(publications) : publications[i] = publications[1]
    /\ ret = Append(existing_keys[1], "z")
    /\ ReturnedKeyIsNew

Resolved == call = "resolve_key_conflicts"

\* the letters whose suffixed key is not in existing_keys, as positions in
\* the alphabet
FreeLetters(base_key) ==
    {i \in 1..Len(LowerLetters) :
        Append(base_key, LowerLetters[i]) \notin ToSet(existing_keys)}

FirstFreeKey(base_key, free) ==
    IF base_key \notin ToSet(existing_keys) THEN base_key
    ELSE IF free # {}
    THEN Append(base_key, LowerLetters[CHOOSE i \in free : \A j \in free : i <= j])
    ELSE Append(base_key, "z")

\* C18: resolve_key_conflicts returns the base key when it is not in
\* existing_keys, otherwise the first of base+"a" .. base+"z" in alphabetical
\* order that is not in existing_keys, and base+"z" when the base key and all
\* 26 suffixed keys are present.
C18_FirstFreeKey ==
    Resolved =>
        ret = FirstFreeKey(generate_citation_key(pub1),
                           FreeLetters(generate_citation_key(pub1)))

C18_Witness ==
    /\ Resolved
    /\ Len(existing_keys) = Len(LowerLetters) + 1
    /\ FreeLetters(generate_citation_key(pub1)) = {}
    /\ ret = <<"L", "i", "2", "0", "2", "3", "-", "1", "z">>

KeyGenerated == call = "generate_citation_key"

\* the surname and the year segment of the key of pub1
SurnameAndYear ==
    extract_first_author_surname(pub1)
        \o (IF pub1.year # 0 THEN str(pub1.year) ELSE <<"N", "o", "Y", "e", "a", "r">>)

StartsWith(s, prefix) == Len(s) >= Len(prefix) /\ SubSeq(s, 1, Len(prefix)) = prefix

\* C19: generate_citation_key never raises; the key is the surname, then the
\* year or "NoYear" when the year is absent, then the page segment, which is
\* empty when there are no pages; without authors, year and pages the key is
\* "UnknownNoYear".
C19_KeyComposition ==
    KeyGenerated =>
        /\ ~Raised
        /\ StartsWith(ret.value, SurnameAndYear)
        /\ pub1.pages = <<>> => ret.value = SurnameAndYear
        /\ pub1.authors = <<>> /\ pub1.year = 0 /\ pub1.pages = <<>> =>
              ret.value = Unknown \o <<"N", "o", "Y", "e", "a", "r">>

C19_Witness ==
    /\ KeyGenerated /\ ~Raised
    /\ pub1.none = {"authors", "pages"}
    /\ pub1.year = 0
    /\ ret.value = <<"U", "n", "k", "n", "o", "w", "n", "N", "o", "Y", "e", "a", "r">>

SurnameExtracted == call = "extract_first_author_surname"

\* C20: the surname part of a citation key holds only ASCII letters and
\* hyphens, no two adjacent hyphens and no hyphen at either end.
C20_SurnameAsciiLettersAndHyphens ==
    SurnameExtracted =>
        /\ \A i \in 1..Len(ret) : IsAsciiLetter(ret[i]) \/ ret[i] = "-"
        /\ \A i \in 1..(Len(ret) - 1) : ~(ret[i] = "-" /\ ret[i + 1] = "-")
        /\ ret # <<>> /\ ret[1] # "-" /\ ret[Len(ret)] # "-"

(***************************************************************************)
(* Properties of the page segment of a citation key.                       *)
(***************************************************************************)
\* the range separators, each once
RangeSeparators == ToSet(separators)

SeparatorAt(pages, i) == \E separator \in RangeSeparators : HasAt(pages, i, separator)

\* the trimmed text before the leftmost position of pages at which a range
\* separator starts, the trimmed pages when there is none
TextBeforeLeftmost(pages) ==
    IF \E i \in 1..Len(pages) : SeparatorAt(pages, i)
    THEN strip(SubSeq(pages, 1,
                      (CHOOSE i \in 1..Len(pages) :
                          SeparatorAt(pages, i)
                            /\ \A j \in 1..(i - 1) : ~SeparatorAt(pages, j)) - 1))
    ELSE strip(pages)

\* the text of the page segment: the text before the leftmost separator,
\* fallback when that is empty
SegmentText(pages, fallback) ==
    IF TextBeforeLeftmost(pages) # <<>> THEN TextBeforeLeftmost(pages) ELSE fallback

\* C21: the page segment of a citation key is "-" followed by the trimmed
\* text that precedes the leftmost occurrence in the pages string of any range
\* separator; when that text is empty the pages string as given is used.
C21_PageSegmentLeftmost ==
    KeyGenerated /\ ~Raised /\ pub1.pages # <<>> =>
        ret.value = SurnameAndYear \o <<"-">> \o SegmentText(pub1.pages, pub1.pages)

\* the same with the trimmed pages string as the fallback
C21_PageSegmentLeftmostTrimmed ==
    KeyGenerated /\ ~Raised /\ strip(pub1.pages) # <<>> =>
        ret.value
          = SurnameAndYear \o <<"-">> \o SegmentText(strip(pub1.pages), strip(pub1.pages))

BareHostOf(url_or_domain) ==
    IF url_or_domain \in {DifferentCom, DifferentComUrl} THEN DifferentCom ELSE ExampleCom

\* the network location that each argument names: the host as written, with
\* the port when the URL gives one
NetworkLocationOf(url_or_domain) ==
    IF url_or_domain = ExampleComPortUrl THEN ExampleCom \o <<":", "8">>
    ELSE BareHostOf(url_or_domain)

\* between two cleanups, calls of get_session return the same session exactly
\* when their arguments name the same domain
SameSessionIffSameDomain(DomainOf(_)) ==
    \A i, j \in 1..Len(returned) :
        returned[i].cleanups = returned[j].cleanups =>
            (returned[i].session = returned[j].session
                <=> DomainOf(returned[i].domain) = DomainOf(returned[j].domain))

\* between two cleanups at most one session is created for a domain
OneSessionPerDomain ==
    \A i, j \in 1..Len(created) :
        created[i].cleanups = created[j].cleanups /\ i # j =>
            BareHostOf(created[i].domain) # BareHostOf(created[j].domain)

\* between two cleanups at most one session is created for a network location
OneSessionPerNetworkLocation ==
    \A i, j \in 1..Len(created) :
        created[i].cleanups = created[j].cleanups /\ i # j =>
            created[i].domain # created[j].domain

\* C23: between two cleanups get_session returns the same session for calls
\* with the same domain, a full URL and its bare host being the same domain,
\* and different sessions for different domains, also when threads call it
\* concurrently; at most one session is created per domain.
C23_OneSessionPerHost ==
    SameSessionIffSameDomain(BareHostOf) /\ OneSessionPerDomain

\* C23 amended: the domain of a URL that starts with "http://" or "https://"
\* is its network location, the host with the port when one is written.
C23_OneSessionPerNetworkLocation ==
    SameSessionIffSameDomain(NetworkLocationOf) /\ OneSessionPerNetworkLocation

C23_Witness ==
    /\ Len(returned) = MaxCalls
    /\ returned[1].domain = ExampleComUrl /\ returned[2].domain = ExampleCom
    /\ returned[1].session = returned[2].session
    /\ returned[1].cleanups = returned[2].cleanups
    /\ Len(created) = 1
    /\ \E thread \in Threads : pc[thread] = "cleanup: with"

(***************************************************************************)
(* Properties of ZoteroSource.fetch.                                       *)
(***************************************************************************)
\* the requests of pages of My Publications made so far
PageRequests == SelectSeq(requested, LAMBDA r : r.endpoint = "publications/items")

\* a fetch of My Publications as JSON that the server answers without failure
MyPublicationsAsJson ==
    /\ call = "fetch"
    /\ config.use_my_publications /\ config.library_type = "user"
    /\ config.format = "json"
    /\ server.failure.kind = "none"
    /\ config.group_id # <<>> \/ server.keys_current = "200"

\* the number of the first page on which the server returns fewer than limit
\* items, counted from 0
FirstShortPage == server.total \div limit

\* the pages are requested in order up to the first short page, and the
\* publications of all of them are returned in page order
PagesUntilShortPage ==
    /\ \A i \in 1..Len(PageRequests) : PageRequests[i].start = (i - 1) * limit
    /\ Len(PageRequests) <= FirstShortPage + 1
    /\ fetching = "done" =>
          /\ Len(PageRequests) = FirstShortPage + 1
          /\ "value" \in DOMAIN ret
          /\ ret.value = ParsedItems(Items(server.total, 0, server.total), server.notes)

\* C24: fetching My Publications as JSON requests the pages at start 0, 100,
\* 200, ... in that order, stops after the first page on which the server
\* returns fewer than 100 items or none, and returns the publications parsed
\* from all fetched pages in page order.
C24_PagesUntilShortPage == MyPublicationsAsJson => PagesUntilShortPage

\* the same for the ZoteroSource of sources.py alone
C24_PagesUntilShortPageInSources ==
    MyPublicationsAsJson /\ module = "sources" => PagesUntilShortPage

\* a fetch that starts with My Publications
MyPublicationsEnabled ==
    call = "fetch" /\ config.use_my_publications /\ config.library_type = "user"

RegularLibraryRequested == \E i \in 1..Len(requested) : requested[i].endpoint = "items/top"

\* the request of a page of My Publications was made and failed as kinds say
PageFailed(kinds) ==
    /\ server.failure.kind \in kinds
    /\ \E i \in 1..Len(PageRequests) : PageRequests[i].start = server.failure.start

\* the lookup of the user id was made and failed
LookupFailed ==
    /\ server.keys_current # "200"
    /\ \E i \in 1..Len(requested) : requested[i].endpoint = "keys/current"

RaisedValueError == "exception" \in DOMAIN ret /\ ret.exception = "ValueError"

\* the regular library is requested only after a 404 of My Publications, and
\* any other failure ends in a ValueError
FallbackOnlyOn404 ==
    /\ RegularLibraryRequested => PageFailed({"404"})
    /\ PageFailed({"403", "500", "ConnectionError"}) \/ LookupFailed =>
          fetching = "done" /\ RaisedValueError /\ ~RegularLibraryRequested

\* C25: with use_my_publications on a user library, fetch falls back to the
\* regular library only when the My Publications request fails with a 404 or
\* not-found error; any other failure raises ValueError without a request of
\* the regular library, and on success the regular library is not requested.
C25_FallbackOnlyOn404 == MyPublicationsEnabled => FallbackOnlyOn404

\* the same for user ids without the digits 404
C25_FallbackOnlyOn404OtherUserIds ==
    MyPublicationsEnabled /\ ~IsSubstring(<<"4", "0", "4">>, config.group_id) =>
        FallbackOnlyOn404

(***************************************************************************)
(* A list compared with itself.                                            *)
(***************************************************************************)
HasTitleAndAuthor(p) == p.title # <<>> /\ p.authors # <<>>

\* C26: a publication with a non-empty title and at least one author matches
\* itself at the default settings, so find_missing of a list of such
\* publications against the same list is empty.
C26_UnchangedNeverMissing ==
    /\ call = "match_publications" /\ pub2 = pub1 /\ HasTitleAndAuthor(pub1) =>
          ret.is_match
    /\ call = "find_missing" /\ reference_pubs = source_pubs
            /\ (\A i \in 1..Len(source_pubs) : HasTitleAndAuthor(source_pubs[i])) =>
          ret = <<>>

\* the same for publications that carry a year or a DOI as well
C26_UnchangedWithYearOrDoiNeverMissing ==
    /\ call = "match_publications" /\ pub2 = pub1 /\ HasTitleAndAuthor(pub1)
            /\ (pub1.year # 0 \/ pub1.doi # <<>>) =>
          ret.is_match
    /\ call = "find_missing" /\ reference_pubs = source_pubs
            /\ (\A i \in 1..Len(source_pubs) :
                   /\ HasTitleAndAuthor(source_pubs[i])
                   /\ source_pubs[i].year # 0 \/ source_pubs[i].doi # <<>>) =>
          ret = <<>>

(***************************************************************************)
(* Titles without a common word.                                           *)
(***************************************************************************)
NoCommonWord(title1, title2) == ToSet(split(title1)) \cap ToSet(split(title2)) = {}

ContainmentEnhancedScorers ==
    {"_calculate_fuzzy_similarity", "calculate_enhanced_title_similarity"}

\* C27: two titles that have no word in common get similarity 0.0 from the
\* containment-enhanced title scorer.
C27_NoCommonWordScoresZero ==
    call \in ContainmentEnhancedScorers /\ NoCommonWord(args[1], args[2]) => ret = Zero

\* the same for titles neither of which is a substring of the other
C27_NoCommonWordNoSubstringScoresZero ==
    call \in ContainmentEnhancedScorers /\ NoCommonWord(args[1], args[2])
        /\ ~IsSubstring(args[1], args[2]) /\ ~IsSubstring(args[2], args[1]) =>
            ret = Zero

(***************************************************************************)
(* Symmetry of match_publications.                                         *)
(***************************************************************************)
MatchedBothWays == call = "match_publications both ways"

\* C28: match_publications(a, b) and match_publications(b, a) have the same
\* confidence, the same is_match and the same match_reasons.
C28_Symmetric ==
    MatchedBothWays =>
        /\ ret.forward.confidence = ret.backward.confidence
        /\ ret.forward.is_match = ret.backward.is_match
        /\ ret.forward.match_reasons = ret.backward.match_reasons

\* two publications with author lists and titles of different sizes, matched
\* on title, year and authors in both orders
C28_Witness ==
    /\ MatchedBothWays
    /\ Len(pub1.authors) > Len(pub2.authors)
    /\ pub2.authors # <<>>
    /\ pub1.title # pub2.title
    /\ ret.forward.match_reasons = <<"title", "year", "authors", "journal">>
    /\ ret.forward.is_match
    /\ ret.backward.source_publication = pub2

(***************************************************************************)
(* The recommendations for duplicate groups.                               *)
(***************************************************************************)
Recommended == call = "generate_sync_recommendations"

\* the publications of the "remove" recommendations, in order
RECURSIVE Removed(_)
Removed(recommendations) ==
    IF recommendations = <<>> THEN <<>>
    ELSE (IF Head(recommendations).action_type = "remove"
          THEN <<Head(recommendations).publication>> ELSE <<>>)
           \o Removed(Tail(recommendations))

\* the members of a group other than the one selected as primary
AllButPrimary(group) ==
    LET primary == _select_primary_publication(group)
        at == CHOOSE i \in 1..Len(group) :
                  group[i] = primary /\ \A j \in 1..(i - 1) : group[j] # primary
    IN  SubSeq(group, 1, at - 1) \o SubSeq(group, at + 1, Len(group))

NMinusOneRemoved(groups) ==
    Removed(ret) = Concat([i \in 1..Len(groups) |-> AllButPrimary(groups[i])])

PairwiseDifferent(group) ==
    \A i, j \in 1..Len(group) : i # j => group[i] # group[j]

\* C29: for every duplicate group of n publications there are exactly n - 1
\* "remove" recommendations, one for each member other than the selected
\* primary.
C29_AllButPrimaryRemoved == Recommended => NMinusOneRemoved(args[1].duplicate_groups)

\* the same when no group holds two equal publications
C29_AllButPrimaryRemovedOfDifferent ==
    Recommended /\ (\A i \in 1..Len(args[1].duplicate_groups) :
                       PairwiseDifferent(args[1].duplicate_groups[i])) =>
        NMinusOneRemoved(args[1].duplicate_groups)

(***************************************************************************)
(* The page requests of one fetch of a Pure profile.                       *)
(***************************************************************************)
RECURSIVE PagesRequested(_)
PagesRequested(requests) ==
    IF requests = <<>> THEN 0
    ELSE (IF Head(requests).endpoint = "page" THEN 1 ELSE 0) + PagesRequested(Tail(requests))

ScrapingPure == call = "fetch" /\ args = <<PureUrl>>

\* C30: one fetch of a Pure profile by HTML scraping performs at most 10 page
\* requests, whatever the server answers.
C30_AtMostTenPages == ScrapingPure => PagesRequested(requested) <= max_pages

\* the same for the PureSource of pure_source.py alone
C30_AtMostTenPagesInPureSource ==
    ScrapingPure /\ module = "pure_source" => PagesRequested(requested) <= max_pages

====
